---- MODULE Spec2Model ----
(***************************************************************************)
(* Wrapper fee and gas accounting of the ledger protocol                   *)
(* (shared/src/ledger/protocol/mod.rs): apply_wrapper_tx, charge_fee,      *)
(* transfer_fee, check_fees and token_transfer over a three-layer write    *)
(* log (tx write log, precommit write log, block write log) on top of the  *)
(* committed storage.  The default build is modelled: neither "mainnet"    *)
(* nor "abciplus"/"abcipp" is enabled.                                     *)
(***************************************************************************)
EXTENDS Integers, Sequences, FiniteSets, TLC

\* ------------------------------------------------------------------ bounds
\* Largest value of token::Amount (stands for the width of the amount type).
MaxAmount == 3
\* Largest wrapper gas limit that is drawn.
MaxGasLimit == 2
\* Largest wrapper size in bytes that is drawn.
MaxTxSize == 2

\* Gas charged per byte of the wrapper.
TX_SIZE_GAS_PER_BYTE == 1

\* Largest number of verifiers of one transaction.
MaxVerifiers == 2
\* Largest gas cost of one step of a validity predicate.
MaxVpGas == 1
\* Number of public keys of the signing account.
MaxSigners == 2
\* Gas of one signature verification.
VERIFY_TX_SIG_GAS_COST == 1

\* --------------------------------------------------------------- addresses
FeePayer == "payer"
Validator == "validator"
Other == "other"
Masp == "masp"
Address == {FeePayer, Validator, Other, Masp}
NoProposer == "none"

\* ------------------------------------------------------------ storage keys
balance_key(owner) == <<"balance", owner>>
get_replay_protection_key(hash) == <<"replay", hash>>
WrapperHash == "wrapper_header_hash"
InnerHash == "inner_header_hash"
MaspKey == <<"masp", "head-tx">>
PriorKey == <<"prior", "write">>
BalanceKeys == {balance_key(a) : a \in Address}

\* ------------------------------------------------------------------- state
VARIABLES
    wrapper,          \* the WrapperTx: amount_per_gas_unit, gas_limit
    fee_unshield_transaction, \* "Some" when an unshielding section came along
    block_proposer,   \* the proposer's address, or NoProposer (check mode)
    has_valid_pow,    \* a valid proof-of-work solution came with the wrapper
    tx_size,          \* length of tx_bytes
    storage,          \* committed storage: key -> value
    write_log,        \* [block_write_log, tx_precommit_write_log, tx_write_log]
    tx_gas_meter,     \* [tx_gas_limit, transaction_gas]
    changed_keys,     \* the set apply_wrapper_tx returns
    pc,               \* position inside apply_wrapper_tx / charge_fee
    result,           \* "none" while running, then "Ok", "FeeError", "GasError"
    unshield,         \* outcome and writes of the nested unshielding tx
    fee_call,         \* snapshot taken around transfer_fee / check_fees
    steps,            \* the steps of apply_wrapper_tx taken so far, in order
    verifiers,        \* the verifiers: those of the tx, then the whole set
    vp_env,           \* what storage and the VP runners return per verifier
    chunks,           \* the chunks of the parallel fold and their results
    vps_pc,           \* position inside apply_wasm_tx
    vps_result,       \* what execute_vps returned
    vp_trace,         \* what each evaluated VP saw and did; snapshots
    ibc_events,       \* the IBC events held by the write log
    tx_result,        \* what apply_wasm_tx returned
    sig_tx,           \* the signature sections of the tx being verified
    sig_args,         \* hashes, threshold and max_signatures
    sig_gas_meter,    \* the VpGasMeter handed to verify_section_signatures
    sig_pc,           \* the section the loop is at, and the stage
    sig_todo,         \* the signature indices of the section still to check
    valid_signatures, \* the counter of verify_section_signatures
    sig_result,       \* "none" while running, then Ok or the error
    sig_checked,      \* the number of signatures verified so far
    merge_args,       \* three VpsResults and the tx meter handed to the merge
    merge_out,        \* the merges of those results, per order and pairing
    self_tx,          \* the Tx being built: header and sections
    tx_pc,            \* stage of the builder
    tx_log,           \* the operations applied to tx, with what they returned
    commitment,       \* a Commitment
    com_log,          \* the operations applied to commitment
    wire_tx,          \* the Tx given to to_bytes
    tx_bytes,         \* the bytes to_bytes returned
    wire_out,         \* what Tx::try_from returned
    pool_tx,          \* the Tx given to BridgePoolVp::validate_tx
    pre_storage,      \* storage before the transaction, as far as it was read
    post_storage,     \* storage after the transaction, as far as it was read
    keys_changed,     \* the keys the transaction wrote
    pool_pc,          \* position inside BridgePoolVp::validate_tx
    pool_result       \* what BridgePoolVp::validate_tx returned

vars == <<wrapper, fee_unshield_transaction, block_proposer, has_valid_pow,
          tx_size, storage, write_log, tx_gas_meter, changed_keys, pc, result, unshield, fee_call,
          steps,
         verifiers, vp_env, chunks, vps_pc, vps_result, vp_trace,
         ibc_events, tx_result, sig_tx, sig_args, sig_gas_meter, sig_pc,
         sig_todo, valid_signatures, sig_result, sig_checked,
         merge_args, merge_out,
         self_tx, tx_pc, tx_log, commitment, com_log, wire_tx, tx_bytes, wire_out,
         pool_tx, pre_storage, post_storage, keys_changed, pool_pc, pool_result>>

\* --------------------------------------------------------------- write log
EmptyLog == [k \in {} |-> 0]

LogPut(log, key, value) ==
    [k \in DOMAIN log \cup {key} |-> IF k = key THEN value ELSE log[k]]

\* Entries of `over` replace those of `under`.
LogExtend(under, over) ==
    [k \in DOMAIN under \cup DOMAIN over |->
        IF k \in DOMAIN over THEN over[k] ELSE under[k]]

\* WriteLog::write : a write of the running transaction.
wl_write(wl, key, value) ==
    [wl EXCEPT !.tx_write_log = LogPut(@, key, value)]

\* WriteLog::protocol_write : a write of the protocol, to the block write log.
protocol_write(wl, key, value) ==
    [wl EXCEPT !.block_write_log = LogPut(@, key, value)]

\* WriteLog::precommit_tx : the tx write log is moved to the precommit log.
precommit_tx(wl) ==
    [wl EXCEPT !.tx_precommit_write_log = LogExtend(@, wl.tx_write_log),
               !.tx_write_log = EmptyLog]

\* WriteLog::drop_tx_keep_precommit : only the tx write log is dropped.
drop_tx_keep_precommit(wl) ==
    [wl EXCEPT !.tx_write_log = EmptyLog]

\* WriteLog::commit_tx : precommit and tx write log go to the block write log.
commit_tx(wl) ==
    [block_write_log |->
        LogExtend(wl.block_write_log,
                  LogExtend(wl.tx_precommit_write_log, wl.tx_write_log)),
     tx_precommit_write_log |-> EmptyLog,
     tx_write_log |-> EmptyLog]

\* WriteLog::get_keys_with_precommit
get_keys_with_precommit(wl) ==
    DOMAIN wl.tx_precommit_write_log \cup DOMAIN wl.tx_write_log

\* A read through the write log: tx, precommit, block, then storage.
HasKey(wl, st, key) ==
    \/ key \in DOMAIN wl.tx_write_log
    \/ key \in DOMAIN wl.tx_precommit_write_log
    \/ key \in DOMAIN wl.block_write_log
    \/ key \in DOMAIN st

Read(wl, st, key) ==
    IF key \in DOMAIN wl.tx_write_log THEN wl.tx_write_log[key]
    ELSE IF key \in DOMAIN wl.tx_precommit_write_log
         THEN wl.tx_precommit_write_log[key]
    ELSE IF key \in DOMAIN wl.block_write_log THEN wl.block_write_log[key]
    ELSE st[key]

\* storage_api::token::read_balance : a missing balance reads as zero.
read_balance(wl, st, owner) ==
    IF HasKey(wl, st, balance_key(owner))
    THEN Read(wl, st, balance_key(owner)) ELSE 0

\* ----------------------------------------------------------------- amounts
NoAmount == -1
checked_sub(a, b) == IF a >= b THEN a - b ELSE NoAmount
checked_add(a, b) == IF a + b <= MaxAmount THEN a + b ELSE NoAmount
checked_mul(a, b) == IF a * b <= MaxAmount THEN a * b ELSE NoAmount

\* WrapperTx::get_tx_fee : amount_per_gas_unit * gas_limit, or an overflow.
get_tx_fee(w) == checked_mul(w.amount_per_gas_unit, w.gas_limit)

\* -------------------------------------------------------------- fee charging
\* token_transfer with the debit of the source left out.
token_transfer_no_debit(wl, st, src, dest, amount) ==
    LET src_balance == read_balance(wl, st, src)
        dest_balance == read_balance(wl, st, dest)
        new_dest_balance == checked_add(dest_balance, amount)
    IN  IF checked_sub(src_balance, amount) = NoAmount
        THEN [wl |-> wl, res |-> "FeeError"]
        ELSE IF src = dest
        THEN [wl |-> wl, res |-> "Ok"]
        ELSE IF new_dest_balance = NoAmount
        THEN [wl |-> wl, res |-> "FeeError"]
        ELSE [wl |-> wl_write(wl, balance_key(dest), new_dest_balance),
              res |-> "Ok"]

\* token_transfer that writes the debit of the source before it looks at
\* the credit of the destination.
token_transfer_debits_first(wl, st, src, dest, amount) ==
    LET src_balance == read_balance(wl, st, src)
        new_src_balance == checked_sub(src_balance, amount)
        dest_balance == read_balance(wl, st, dest)
        new_dest_balance == checked_add(dest_balance, amount)
        debited == wl_write(wl, balance_key(src), new_src_balance)
    IN  IF new_src_balance = NoAmount
        THEN [wl |-> wl, res |-> "FeeError"]
        ELSE IF src = dest
        THEN [wl |-> wl, res |-> "Ok"]
        ELSE IF new_dest_balance = NoAmount
        THEN [wl |-> debited, res |-> "FeeError"]
        ELSE [wl |-> wl_write(debited, balance_key(dest), new_dest_balance),
              res |-> "Ok"]

\* token_transfer: the new write log and the outcome.
token_transfer(wl, st, src, dest, amount) ==
    LET src_balance == read_balance(wl, st, src)
        new_src_balance == checked_sub(src_balance, amount)
        dest_balance == read_balance(wl, st, dest)
        new_dest_balance == checked_add(dest_balance, amount)
    IN  IF new_src_balance = NoAmount
        THEN [wl |-> wl, res |-> "FeeError"]
        ELSE IF src = dest
        THEN [wl |-> wl, res |-> "Ok"]
        ELSE IF new_dest_balance = NoAmount
        THEN [wl |-> wl, res |-> "FeeError"]
        ELSE [wl |-> wl_write(wl_write(wl, balance_key(src), new_src_balance),
                              balance_key(dest), new_dest_balance),
              res |-> "Ok"]

\* drain_balance that reports the error without moving any funds.
drain_balance_keep_funds(wl, st, proposer, balance) ==
    [wl |-> wl, res |-> "FeeError"]

\* The error branches of transfer_fee: all the available funds of the payer
\* are moved to the proposer and a fee error is returned.
drain_balance(wl, st, proposer, balance) ==
    LET moved == token_transfer(wl, st, FeePayer, proposer, balance)
    IN  [wl |-> moved.wl, res |-> "FeeError"]

\* transfer_fee whose fee overflow is reported without moving any funds.
transfer_fee_overflow_keeps_funds(wl, st, proposer, pow, w) ==
    LET balance == read_balance(wl, st, FeePayer)
        fees == get_tx_fee(w)
    IN  IF fees # NoAmount
        THEN IF checked_sub(balance, fees) # NoAmount
             THEN token_transfer(wl, st, FeePayer, proposer, fees)
             ELSE IF ~pow
                  THEN drain_balance(wl, st, proposer, balance)
                  ELSE [wl |-> wl, res |-> "Ok"]
        ELSE [wl |-> wl, res |-> "FeeError"]

\* transfer_fee that rejects an insufficient balance whatever the proof of
\* work says.
transfer_fee_ignores_pow(wl, st, proposer, pow, w) ==
    LET balance == read_balance(wl, st, FeePayer)
        fees == get_tx_fee(w)
    IN  IF fees # NoAmount
        THEN IF checked_sub(balance, fees) # NoAmount
             THEN token_transfer(wl, st, FeePayer, proposer, fees)
             ELSE drain_balance(wl, st, proposer, balance)
        ELSE drain_balance(wl, st, proposer, balance)

transfer_fee(wl, st, proposer, pow, w) ==
    LET balance == read_balance(wl, st, FeePayer)
        fees == get_tx_fee(w)
    IN  IF fees # NoAmount
        THEN IF checked_sub(balance, fees) # NoAmount
             THEN token_transfer(wl, st, FeePayer, proposer, fees)
             ELSE IF ~pow
                  THEN drain_balance(wl, st, proposer, balance)
                  ELSE [wl |-> wl, res |-> "Ok"]
        ELSE drain_balance(wl, st, proposer, balance)

\* check_fees that lets a proof of work excuse any fee, an overflowing one
\* included.
check_fees_pow_first(wl, st, pow, w) ==
    LET balance == read_balance(wl, st, FeePayer)
        fees == get_tx_fee(w)
    IN  IF pow THEN "Ok"
        ELSE IF fees = NoAmount THEN "FeeError"
        ELSE IF checked_sub(balance, fees) # NoAmount THEN "Ok"
        ELSE "FeeError"

check_fees(wl, st, pow, w) ==
    LET balance == read_balance(wl, st, FeePayer)
        fees == get_tx_fee(w)
    IN  IF fees = NoAmount THEN "FeeError"
        ELSE IF checked_sub(balance, fees) # NoAmount THEN "Ok"
        ELSE IF ~pow THEN "FeeError"
        ELSE "Ok"

\* TxGasMeter::add_tx_size_gas : the consumed gas and the outcome.
add_tx_size_gas(meter, size) ==
    LET gas == meter.transaction_gas + size * TX_SIZE_GAS_PER_BYTE
    IN  [meter |-> [meter EXCEPT !.transaction_gas = gas],
         res |-> IF gas > meter.tx_gas_limit THEN "GasError" ELSE "Ok"]

\* ------------------------------------------------------------------------
\* Validity-predicate execution: apply_wasm_tx, check_vps, execute_vps
\* ------------------------------------------------------------------------
\* The verifier addresses, one per arm of the match in execute_vps.
Established == "established"
PoS == "PoS"
PosSlashPool == "PosSlashPool"
IbcToken == "IbcToken"
Erc20 == "Erc20"
Multitoken == "Multitoken"
VerifierAddress == {Established, PoS, PosSlashPool, IbcToken, Erc20, Multitoken}
\* The order in which the sorted verifier set is iterated.
AddressOrder == <<Established, PoS, PosSlashPool, IbcToken, Erc20, Multitoken>>

\* The amounts of gas one step of a validity predicate may cost.
VpGasCosts == {0, MaxVpGas}

\* The storage key a transaction writes under an account.
account_key(owner) == <<"account", owner>>

\* What the collaborators hand back for an Established (wasm) verifier:
\* storage.validity_predicate and the wasm VP runner.
WasmVpEnv ==
    {[storage |-> "Err", vp_hash |-> "None", load_gas |-> 0,
      run |-> "none", run_gas |-> 0]}
    \cup [storage : {"Ok"}, vp_hash : {"None"}, load_gas : VpGasCosts,
          run : {"none"}, run_gas : {0}]
    \cup [storage : {"Ok"}, vp_hash : {"Some"}, load_gas : VpGasCosts,
          run : {"true", "false", "Err"}, run_gas : VpGasCosts]

\* What validate_tx of a native VP does: its verdict and the gas it uses.
NativeVpEnv(addr) ==
    IF addr = PoS
    THEN [storage : {"Ok"}, vp_hash : {"None"}, load_gas : {0},
          run : {"true", "false", "Err", "Panic"}, run_gas : VpGasCosts]
    ELSE IF addr = Multitoken
    THEN [storage : {"Ok"}, vp_hash : {"None"}, load_gas : {0},
          run : {"true", "false", "Err"}, run_gas : VpGasCosts]
    ELSE {[storage |-> "Ok", vp_hash |-> "None", load_gas |-> 0,
           run |-> "none", run_gas |-> 0]}

VpEnv(addr) == IF addr = Established THEN WasmVpEnv ELSE NativeVpEnv(addr)

\* ------------------------------------------------------------ gas meters
\* VpGasMeter::new_from_tx_meter: a fresh meter seeded from the tx meter.
new_from_tx_meter(tx_meter) ==
    [tx_gas_limit |-> tx_meter.tx_gas_limit,
     initial_gas |-> tx_meter.transaction_gas,
     current_gas |-> 0]

\* VpGasMeter::consume: the cost is added, then the limit is checked.
consume(gas_meter, cost) ==
    LET current == gas_meter.current_gas + cost
    IN  [gas_meter |-> [gas_meter EXCEPT !.current_gas = current],
         ok |-> gas_meter.initial_gas + current <= gas_meter.tx_gas_limit]

\* VpsGas: the gas of the VPs run so far, checked against the tx meter.
check_limit(total, consumed, limit) == total + consumed <= limit

\* VpsGas::set: the gas of one VP run enters the accumulated result.
VpsGas_set(gas_used, gas_meter) ==
    LET total == gas_used + gas_meter.current_gas
    IN  [gas_used |-> total,
         ok |-> check_limit(total, gas_meter.initial_gas,
                            gas_meter.tx_gas_limit)]

\* VpsGas::merge: the gas of two partial results is summed and checked.
VpsGas_merge(a, b, tx_meter) ==
    [gas_used |-> a + b,
     ok |-> check_limit(a + b, tx_meter.transaction_gas,
                        tx_meter.tx_gas_limit)]

\* TxGasMeter::add_vps_gas: the VPs' total is added to the tx meter.
add_vps_gas(tx_meter, vps_gas) ==
    LET gas == tx_meter.transaction_gas + vps_gas
    IN  [meter |-> [tx_meter EXCEPT !.transaction_gas = gas],
         res |-> IF gas > tx_meter.tx_gas_limit THEN "GasError" ELSE "Ok"]

\* ------------------------------------------------------------- VpsResult
VpsResultDefault ==
    [kind |-> "Ok", err |-> "none", accepted_vps |-> {}, rejected_vps |-> {},
     gas_used |-> 0, errors |-> <<>>]

Err(e) == [VpsResultDefault EXCEPT !.kind = "Err", !.err = e]

\* TxResult::is_accepted: the VPs are satisfied when none rejected.
is_accepted(vps) == vps.rejected_vps = {}

\* merge_vp_results whose gas is that of the left operand only.
merge_vp_results_left_gas(a, b, tx_meter) ==
    [VpsResultDefault EXCEPT
        !.accepted_vps = a.accepted_vps \cup b.accepted_vps,
        !.rejected_vps = a.rejected_vps \cup b.rejected_vps,
        !.errors = a.errors \o b.errors,
        !.gas_used = a.gas_used]

\* merge_vp_results that keeps the rejections of the left operand only.
merge_vp_results_left_rejected(a, b, tx_meter) ==
    LET gas == VpsGas_merge(a.gas_used, b.gas_used, tx_meter)
    IN  IF ~gas.ok THEN Err("GasError")
        ELSE [VpsResultDefault EXCEPT
                !.accepted_vps = a.accepted_vps \cup b.accepted_vps,
                !.rejected_vps = a.rejected_vps,
                !.errors = a.errors \o b.errors,
                !.gas_used = gas.gas_used]

\* merge_vp_results: the sets are united, the errors appended, gas merged.
merge_vp_results(a, b, tx_meter) ==
    LET gas == VpsGas_merge(a.gas_used, b.gas_used, tx_meter)
    IN  IF ~gas.ok THEN Err("GasError")
        ELSE [VpsResultDefault EXCEPT
                !.accepted_vps = a.accepted_vps \cup b.accepted_vps,
                !.rejected_vps = a.rejected_vps \cup b.rejected_vps,
                !.errors = a.errors \o b.errors,
                !.gas_used = gas.gas_used]

\* ------------------------------------------------- one verifier's VP run
\* The outcome of the match on the address: `early` marks a return taken
\* inside the arm, before the gas is set on the result.
VpRun(accept, gas_meter, early) ==
    [accept |-> accept, gas_meter |-> gas_meter, early |-> early]

\* The Implicit/Established arm: load the VP, pay for it, run it in wasm.
wasm_vp(e, gas_meter) ==
    IF e.storage = "Err" THEN VpRun("StorageError", gas_meter, TRUE)
    ELSE LET paid == consume(gas_meter, e.load_gas)
         IN  IF ~paid.ok THEN VpRun("GasError", paid.gas_meter, TRUE)
             ELSE IF e.vp_hash = "None"
             THEN VpRun("MissingAddress", paid.gas_meter, TRUE)
             ELSE VpRun(IF e.run = "Err" THEN "VpRunnerError" ELSE e.run,
                        consume(paid.gas_meter, e.run_gas).gas_meter, FALSE)

\* The PoS arm with the panic left to unwind out of execute_vps.
pos_vp_no_catch_unwind(e, gas_meter) ==
    VpRun(IF e.run = "Panic" THEN "Panic"
          ELSE IF e.run = "Err" THEN "PosNativeVpError" ELSE e.run,
          consume(gas_meter, e.run_gas).gas_meter,
          e.run = "Panic")

\* The PoS arm: validate_tx runs behind catch_unwind.
pos_vp(e, gas_meter) ==
    VpRun(IF e.run = "Panic" THEN "PosNativeVpRuntime"
          ELSE IF e.run = "Err" THEN "PosNativeVpError" ELSE e.run,
          consume(gas_meter, e.run_gas).gas_meter,
          FALSE)

\* The Multitoken arm, standing for the native VPs that run validate_tx.
multitoken_vp(e, gas_meter) ==
    VpRun(IF e.run = "Err" THEN "MultitokenNativeVpError" ELSE e.run,
          consume(gas_meter, e.run_gas).gas_meter,
          FALSE)

\* The PosSlashPool arm.
pos_slash_pool_vp(gas_meter) == VpRun("AccessForbidden", gas_meter, FALSE)

\* The IbcToken/Erc20 arm that accepts whatever the verifier set holds.
token_vp_always_accepts(vs, gas_meter) == VpRun("true", gas_meter, FALSE)

\* The IbcToken/Erc20 arm: accepted when Multitoken is a verifier too.
token_vp(vs, gas_meter) ==
    VpRun(IF Multitoken \in vs THEN "true" ELSE "false", gas_meter, FALSE)

\* The match on the verifier's address.
run_vp(addr, e, vs, gas_meter) ==
    IF addr = Established THEN wasm_vp(e, gas_meter)
    ELSE IF addr = PoS THEN pos_vp(e, gas_meter)
    ELSE IF addr = Multitoken THEN multitoken_vp(e, gas_meter)
    ELSE IF addr = PosSlashPool THEN pos_slash_pool_vp(gas_meter)
    ELSE token_vp(vs, gas_meter)

\* fold_result that files a failed verdict as a rejection.
fold_result_rejects_on_error(acc, addr, run) ==
    LET gas == VpsGas_set(acc.gas_used, run.gas_meter)
    IN  IF run.accept = "true"
        THEN [acc EXCEPT !.accepted_vps = @ \cup {addr},
                         !.gas_used = gas.gas_used]
        ELSE [acc EXCEPT !.rejected_vps = @ \cup {addr},
                         !.gas_used = gas.gas_used]

\* The closure of try_fold given the VP run: gas is set on the result, then
\* the verdict is unwrapped and the address filed.
fold_result(acc, addr, run) ==
    IF run.early
    THEN IF run.accept = "Panic"
         THEN [Err("Panic") EXCEPT !.kind = "Panic"]
         ELSE Err(run.accept)
    ELSE LET gas == VpsGas_set(acc.gas_used, run.gas_meter)
         IN  IF ~gas.ok THEN Err("GasError")
             ELSE IF run.accept = "true"
             THEN [acc EXCEPT !.accepted_vps = @ \cup {addr},
                              !.gas_used = gas.gas_used]
             ELSE IF run.accept = "false"
             THEN [acc EXCEPT !.rejected_vps = @ \cup {addr},
                              !.gas_used = gas.gas_used]
             ELSE Err(run.accept)

\* to_vec of the sorted verifier set.
VerifierSeq(vs) == SelectSeq(AddressOrder, LAMBDA a : a \in vs)

\* The contiguous chunks the parallel iterator may cut a sequence into.
RECURSIVE Partitions(_)
Partitions(s) ==
    IF s = <<>> THEN {<<>>}
    ELSE UNION {{<<SubSeq(s, 1, k)>> \o p :
                    p \in Partitions(SubSeq(s, k + 1, Len(s)))} :
                k \in 1..Len(s)}

\* WriteLog::verifiers_and_changed_keys: the verifiers the tx named and the
\* owners of the keys it changed.
verifiers_and_changed_keys(wl, verifiers_from_tx) ==
    verifiers_from_tx
        \cup {a \in VerifierAddress : account_key(a) \in DOMAIN wl.tx_write_log}

\* WriteLog::get_keys: the keys pending in the tx write log.
get_keys(wl) == DOMAIN wl.tx_write_log

\* ------------------------------------------------------- apply_wasm_tx
NoTxResult ==
    [res |-> "none", gas_used |-> 0, changed_keys |-> {},
     vps_result |-> VpsResultDefault, ibc_events |-> {}]

TxError(e) == [NoTxResult EXCEPT !.res = e]

NoVpTrace ==
    [evaluated |-> [a \in {} |-> 0],
     tx_ran |-> FALSE,
     tx_gas_meter |-> [tx_gas_limit |-> 0, transaction_gas |-> 0],
     write_log |-> [block_write_log |-> EmptyLog,
                    tx_precommit_write_log |-> EmptyLog,
                    tx_write_log |-> EmptyLog],
     changed_keys |-> {},
     merge_failed |-> FALSE,
     vps_gas_added |-> 0]

\* The variables of VP execution.
vps_vars ==
    <<verifiers, vp_env, chunks, vps_pc, vps_result, vp_trace, ibc_events,
      tx_result>>

\* No wasm transaction is being applied.
VpsIdle ==
    /\ verifiers = {}
    /\ vp_env = [a \in {} |-> 0]
    /\ chunks = <<>>
    /\ vps_pc = "idle"
    /\ vps_result = VpsResultDefault
    /\ vp_trace = NoVpTrace
    /\ ibc_events = {}
    /\ tx_result = NoTxResult

\* ------------------------------------------------- merge_vp_results alone
merge_vars == <<merge_args, merge_out>>

NoMergeArgs ==
    [a |-> VpsResultDefault, b |-> VpsResultDefault, c |-> VpsResultDefault,
     tx_gas_meter |-> [tx_gas_limit |-> 0, transaction_gas |-> 0]]

\* No merge is being computed.
MergeIdle ==
    /\ merge_args = NoMergeArgs
    /\ merge_out = {}


\* ------------------------------------------------------------------------
\* Tx::verify_section_signatures
\* ------------------------------------------------------------------------
\* Hashes of sections: two that the transaction holds, one it does not.
DataHash == "data_hash"
CodeHash == "code_hash"
GoneHash == "gone_hash"

\* The indices of the account's public keys in the AccountPublicKeysMap.
SignerIndex == 0..(MaxSigners - 1)

\* MultiSignature.signatures, a set ordered by index: an index occurs at
\* most once, and its signature verifies under the key of the index or not.
SignatureSets == UNION {[ix -> BOOLEAN] : ix \in SUBSET SignerIndex}

\* Section::SectionSignature(MultiSignature { targets, signatures })
MultiSignature ==
    [targets : {{DataHash}, {CodeHash}, {DataHash, GoneHash}},
     signatures : SignatureSets]

\* The transactions: none, one or two signature sections besides the data
\* and code sections.
SigTxs ==
    {<<>>} \cup {<<s>> : s \in MultiSignature}
           \cup {<<s, t>> : s \in MultiSignature, t \in MultiSignature}

\* Section::get_hash of a signature section.
get_hash(section) == <<"section_hash", section>>

\* Tx::get_section: the section with the given hash, if the tx holds it.
get_section(tx, hash) ==
    \/ hash \in {DataHash, CodeHash}
    \/ \E i \in 1..Len(tx) : get_hash(tx[i]) = hash

\* MultiSignature::total_signatures: the length of the set, as u8.
total_signatures(section) == Cardinality(DOMAIN section.signatures) % 256

\* max_signatures.unwrap_or(u8::MAX)
u8_MAX == 255

\* The signatures of a section in the order of their indices.
RECURSIVE SortedIndices(_)
SortedIndices(ix) ==
    IF ix = {} THEN <<>>
    ELSE LET m == CHOOSE x \in ix : \A y \in ix : x <= y
         IN  <<m>> \o SortedIndices(ix \ {m})

\* section_checks without the test that the section is over the hashes.
section_checks_no_cover_check(tx, section, hashes, threshold, max_signatures) ==
    IF \E target \in section.targets : ~get_section(tx, target)
    THEN "Missing target section."
    ELSE IF total_signatures(section) > max_signatures
    THEN "too many signatures."
    ELSE IF total_signatures(section) < threshold
    THEN "too few signatures."
    ELSE "Ok"

\* The checks made on a signature section before its signatures are
\* verified; "Ok" lets the loop over the signatures start.
section_checks(tx, section, hashes, threshold, max_signatures) ==
    IF ~(\A x \in hashes : x \in section.targets \/ get_hash(section) = x)
    THEN "missing target hash."
    ELSE IF \E target \in section.targets : ~get_section(tx, target)
    THEN "Missing target section."
    ELSE IF total_signatures(section) > max_signatures
    THEN "too many signatures."
    ELSE IF total_signatures(section) < threshold
    THEN "too few signatures."
    ELSE "Ok"

NoSigArgs == [hashes |-> {}, threshold |-> 0, max_signatures |-> u8_MAX]

sig_vars ==
    <<sig_tx, sig_args, sig_gas_meter, sig_pc, sig_todo, valid_signatures,
      sig_result, sig_checked>>

\* No signature verification is running.
SigIdle ==
    /\ sig_tx = <<>>
    /\ sig_args = NoSigArgs
    /\ sig_gas_meter =
          [tx_gas_limit |-> 0, initial_gas |-> 0, current_gas |-> 0]
    /\ sig_pc = [section |-> 0, at |-> "idle"]
    /\ sig_todo = <<>>
    /\ valid_signatures = 0
    /\ sig_result = "none"
    /\ sig_checked = 0

\* ------------------------------------------- transactions and their sections
\* (core/src/proto/types.rs).  A hash is written as the tuple of what went
\* into the hasher, so two hashes are equal exactly when their inputs are.
\* A Tx is [header, sections]; a Header is [tx_type, pk, code_hash,
\* data_hash] with chain id, expiration and timestamp fixed, and pk "none"
\* for TxType::Raw and TxType::Decrypted, which carry no public key.
DefaultHash == <<255>>

\* The variables of the builder and verifier of transactions (self_tx), of a
\* single Commitment (commitment), of the wire encoding (wire_tx, tx_bytes,
\* wire_out) and of the bridge pool validity predicate.
proto_vars ==
    <<self_tx, tx_pc, tx_log, commitment, com_log, wire_tx, tx_bytes, wire_out,
      pool_tx, pre_storage, post_storage, keys_changed, pool_pc, pool_result>>

\* None of the operations on transactions is running, but for the one named
\* by `active`: the transactions are Tx::default().
ProtoIdle(active) ==
    LET DefaultTx ==
            [header |-> [tx_type |-> "Raw", pk |-> "none",
                         code_hash |-> DefaultHash,
                         data_hash |-> DefaultHash],
             sections |-> <<>>]
    IN  /\ active # "tx" =>
              /\ self_tx = DefaultTx
              /\ tx_pc = "idle"
              /\ tx_log = <<>>
        /\ active # "commitment" =>
              /\ commitment = <<"Id", <<>>>>
              /\ com_log = <<>>
        /\ active # "wire" =>
              /\ wire_tx = DefaultTx
              /\ tx_bytes = <<>>
              /\ wire_out = <<"none">>
        /\ active # "pool" =>
              /\ pool_tx = <<"None">>
              /\ pre_storage = <<>>
              /\ post_storage = <<>>
              /\ keys_changed = {}
              /\ pool_pc = "idle"
              /\ pool_result = "none"

\* ------------------------------------------------------------ initial state
\* The balances of the fee token as every address sees them.
BalanceView(wl, st) == [a \in Address |-> read_balance(wl, st, a)]

NoFeeCall ==
    [called |-> FALSE, mode |-> "none", res |-> "none",
     pre |-> [a \in Address |-> 0], post |-> [a \in Address |-> 0],
     pre_wl |-> [block_write_log |-> EmptyLog,
                 tx_precommit_write_log |-> EmptyLog,
                 tx_write_log |-> EmptyLog],
     post_wl |-> [block_write_log |-> EmptyLog,
                  tx_precommit_write_log |-> EmptyLog,
                  tx_write_log |-> EmptyLog]]

NoUnshield ==
    [outcome |-> "none", amount |-> 0, prior |-> EmptyLog, writes |-> EmptyLog,
     resolved |-> FALSE]

Init ==
    /\ ProtoIdle("none")
    /\ wrapper \in [amount_per_gas_unit : 0..MaxAmount, gas_limit : 1..MaxGasLimit]
    /\ fee_unshield_transaction \in {"None", "Some"}
    /\ block_proposer \in {FeePayer, Validator, NoProposer}
    /\ has_valid_pow \in BOOLEAN
    /\ tx_size \in 1..MaxTxSize
    /\ \E bp, bv \in 0..MaxAmount :
          storage = [k \in BalanceKeys |->
                        IF k = balance_key(FeePayer) THEN bp
                        ELSE IF k = balance_key(Validator) THEN bv
                        ELSE IF k = balance_key(Masp) THEN MaxAmount
                        ELSE 1]
    \* A write of the caller may be pending in the tx write log.
    /\ \E prior \in {EmptyLog, LogPut(EmptyLog, PriorKey, 1)} :
          write_log = [block_write_log |-> EmptyLog,
                       tx_precommit_write_log |-> EmptyLog,
                       tx_write_log |-> prior]
    /\ tx_gas_meter = [tx_gas_limit |-> wrapper.gas_limit, transaction_gas |-> 0]
    /\ changed_keys = {}
    /\ pc = "start"
    /\ result = "none"
    /\ unshield = NoUnshield
    /\ fee_call = NoFeeCall
    /\ steps = <<>>
    /\ VpsIdle
    /\ SigIdle
    /\ MergeIdle

\* ------------------------------------------------------- apply_wrapper_tx
\* WriteWrapperHash with the hash written to the tx write log.
WriteWrapperHash_to_tx_log ==
    /\ pc = "start"
    /\ write_log' = wl_write(write_log,
                        get_replay_protection_key(WrapperHash), 1)
    /\ changed_keys' = changed_keys \cup {get_replay_protection_key(WrapperHash)}
    /\ pc' = IF fee_unshield_transaction = "Some" THEN "unshield" ELSE "fee"
    /\ steps' = Append(steps, "wrapper_hash")
    /\ UNCHANGED <<vps_vars, sig_vars, proto_vars, merge_vars, wrapper,
                   fee_unshield_transaction, block_proposer,
                   has_valid_pow, tx_size, storage, tx_gas_meter, result,
                   unshield, fee_call>>

\* The wrapper's hash goes to the block write log, then charge_fee starts.
WriteWrapperHash ==
    /\ pc = "start"
    /\ write_log' = protocol_write(write_log,
                        get_replay_protection_key(WrapperHash), 1)
    /\ changed_keys' = changed_keys \cup {get_replay_protection_key(WrapperHash)}
    /\ pc' = IF fee_unshield_transaction = "Some" THEN "unshield" ELSE "fee"
    /\ steps' = Append(steps, "wrapper_hash")
    /\ UNCHANGED <<vps_vars, sig_vars, proto_vars, merge_vars, wrapper,
                   fee_unshield_transaction, block_proposer,
                   has_valid_pow, tx_size, storage, tx_gas_meter, result,
                   unshield, fee_call>>

\* charge_fee: generate_fee_unshielding fails; the error is only logged.
GenerateUnshieldingFails ==
    /\ pc = "unshield"
    /\ unshield' = [NoUnshield EXCEPT !.outcome = "GenerateErr",
                                      !.resolved = TRUE]
    /\ pc' = "fee"
    /\ steps' = Append(steps, "unshield")
    /\ UNCHANGED <<vps_vars, sig_vars, proto_vars, merge_vars, wrapper,
                   fee_unshield_transaction, block_proposer,
                   has_valid_pow, tx_size, storage, write_log, tx_gas_meter,
                   changed_keys, result, fee_call>>

\* What the unshielding transfer writes, in order: `amount` is moved from the
\* balance of the shielded pool to the payer, then the pool records the
\* shielded transaction.
UnshieldWrites(wl, st, amount) ==
    <<[key |-> balance_key(Masp),
       value |-> read_balance(wl, st, Masp) - amount],
      [key |-> balance_key(FeePayer),
       value |-> read_balance(wl, st, FeePayer) + amount],
      [key |-> MaspKey, value |-> 1]>>

RECURSIVE ApplyWrites(_, _, _)
ApplyWrites(wl, ws, n) ==
    IF n = 0 THEN wl
    ELSE wl_write(ApplyWrites(wl, ws, n - 1), ws[n].key, ws[n].value)

\* charge_fee: precommit_tx, then apply_wasm_tx runs the unshielding tx on
\* the clean tx write log.  execute_tx may fail after any number of its
\* writes; check_vps may fail, reject or accept after all of them.
RunUnshielding ==
    /\ pc = "unshield"
    /\ \E amount \in 1..MaxAmount, outcome \in {"TxErr", "VpsErr", "Rejected", "Accepted"} :
         LET clean == precommit_tx(write_log)
             ws == UnshieldWrites(clean, storage, amount)
             fits == /\ read_balance(clean, storage, Masp) >= amount
                     /\ read_balance(clean, storage, FeePayer) + amount
                            <= MaxAmount
         IN  \E n \in 0..Len(ws) :
                \* a transfer that does not fit fails before it writes
                /\ ~fits => (outcome = "TxErr" /\ n = 0)
                /\ outcome # "TxErr" => n = Len(ws)
                /\ write_log' = ApplyWrites(clean, ws, n)
                /\ unshield' = [outcome |-> outcome,
                                amount |-> amount,
                                prior |-> write_log.tx_write_log,
                                writes |-> ApplyWrites(clean, ws, n).tx_write_log,
                                resolved |-> FALSE]
    /\ pc' = "unshield_result"
    /\ steps' = Append(steps, "unshield")
    /\ UNCHANGED <<vps_vars, sig_vars, proto_vars, merge_vars, wrapper,
                   fee_unshield_transaction, block_proposer,
                   has_valid_pow, tx_size, storage, tx_gas_meter,
                   changed_keys, result, fee_call>>

\* HandleUnshieldingResult that drops the tx write log on an error only, not
\* on a rejection by a VP.
HandleUnshieldingResult_keeps_rejected ==
    /\ pc = "unshield_result"
    /\ write_log' = IF unshield.outcome \in {"Accepted", "Rejected"}
                    THEN write_log
                    ELSE drop_tx_keep_precommit(write_log)
    /\ unshield' = [unshield EXCEPT !.resolved = TRUE]
    /\ pc' = "fee"
    /\ UNCHANGED <<vps_vars, sig_vars, proto_vars, merge_vars, wrapper,
                   fee_unshield_transaction, block_proposer,
                   has_valid_pow, tx_size, storage, tx_gas_meter,
                   changed_keys, result, fee_call, steps>>

\* HandleUnshieldingResult that precommits the tx write log of a failed
\* unshielding instead of dropping it.
HandleUnshieldingResult_precommits ==
    /\ pc = "unshield_result"
    /\ write_log' = IF unshield.outcome = "Accepted"
                    THEN write_log
                    ELSE precommit_tx(write_log)
    /\ unshield' = [unshield EXCEPT !.resolved = TRUE]
    /\ pc' = "fee"
    /\ UNCHANGED <<vps_vars, sig_vars, proto_vars, merge_vars, wrapper,
                   fee_unshield_transaction, block_proposer,
                   has_valid_pow, tx_size, storage, tx_gas_meter,
                   changed_keys, result, fee_call, steps>>

\* charge_fee: the match on the result of apply_wasm_tx.
HandleUnshieldingResult ==
    /\ pc = "unshield_result"
    /\ write_log' = IF unshield.outcome = "Accepted"
                    THEN write_log
                    ELSE drop_tx_keep_precommit(write_log)
    /\ unshield' = [unshield EXCEPT !.resolved = TRUE]
    /\ pc' = "fee"
    /\ UNCHANGED <<vps_vars, sig_vars, proto_vars, merge_vars, wrapper,
                   fee_unshield_transaction, block_proposer,
                   has_valid_pow, tx_size, storage, tx_gas_meter,
                   changed_keys, result, fee_call, steps>>

\* charge_fee: transfer_fee when the proposer is known, check_fees otherwise.
\* An error leaves charge_fee and apply_wrapper_tx at once.
ChargeOrCheckFees ==
    /\ pc = "fee"
    /\ LET out == IF block_proposer # NoProposer
                  THEN transfer_fee(write_log, storage, block_proposer,
                                    has_valid_pow, wrapper)
                  ELSE [wl |-> write_log,
                        res |-> check_fees(write_log, storage,
                                           has_valid_pow, wrapper)]
       IN  /\ write_log' = out.wl
           /\ fee_call' = [called |-> TRUE,
                           mode |-> IF block_proposer # NoProposer
                                    THEN "transfer" ELSE "check",
                           res |-> out.res,
                           pre |-> BalanceView(write_log, storage),
                           post |-> BalanceView(out.wl, storage),
                           pre_wl |-> write_log,
                           post_wl |-> out.wl]
           /\ pc' = IF out.res = "Ok" THEN "commit" ELSE "done"
           /\ result' = IF out.res = "Ok" THEN result ELSE out.res
    /\ steps' = Append(steps, "fee")
    /\ UNCHANGED <<vps_vars, sig_vars, proto_vars, merge_vars, wrapper,
                   fee_unshield_transaction, block_proposer,
                   has_valid_pow, tx_size, storage, tx_gas_meter,
                   changed_keys, unshield>>

\* CommitFee after which the gas for the wrapper's size is not charged.
CommitFee_skips_gas ==
    /\ pc = "commit"
    /\ changed_keys' = changed_keys \cup get_keys_with_precommit(write_log)
    /\ write_log' = commit_tx(write_log)
    /\ pc' = "inner"
    /\ steps' = Append(steps, "commit")
    /\ UNCHANGED <<vps_vars, sig_vars, proto_vars, merge_vars, wrapper,
                   fee_unshield_transaction, block_proposer,
                   has_valid_pow, tx_size, storage, tx_gas_meter, result,
                   unshield, fee_call>>

\* CommitFee that leaves the tx write log uncommitted.
CommitFee_no_commit ==
    /\ pc = "commit"
    /\ changed_keys' = changed_keys \cup get_keys_with_precommit(write_log)
    /\ write_log' = write_log
    /\ pc' = "gas"
    /\ steps' = Append(steps, "commit")
    /\ UNCHANGED <<vps_vars, sig_vars, proto_vars, merge_vars, wrapper,
                   fee_unshield_transaction, block_proposer,
                   has_valid_pow, tx_size, storage, tx_gas_meter, result,
                   unshield, fee_call>>

\* charge_fee: the changed keys are collected and the tx write log committed.
CommitFee ==
    /\ pc = "commit"
    /\ changed_keys' = changed_keys \cup get_keys_with_precommit(write_log)
    /\ write_log' = commit_tx(write_log)
    /\ pc' = "gas"
    /\ steps' = Append(steps, "commit")
    /\ UNCHANGED <<vps_vars, sig_vars, proto_vars, merge_vars, wrapper,
                   fee_unshield_transaction, block_proposer,
                   has_valid_pow, tx_size, storage, tx_gas_meter, result,
                   unshield, fee_call>>

\* apply_wrapper_tx: gas for the size of the wrapper.
AddTxSizeGas ==
    /\ pc = "gas"
    /\ LET out == add_tx_size_gas(tx_gas_meter, tx_size)
       IN  /\ tx_gas_meter' = out.meter
           /\ pc' = IF out.res = "Ok" THEN "inner" ELSE "done"
           /\ result' = IF out.res = "Ok" THEN result ELSE out.res
    /\ steps' = Append(steps, "size_gas")
    /\ UNCHANGED <<vps_vars, sig_vars, proto_vars, merge_vars, wrapper,
                   fee_unshield_transaction, block_proposer,
                   has_valid_pow, tx_size, storage, write_log, changed_keys,
                   unshield, fee_call>>

\* apply_wrapper_tx: the inner tx hash goes to the block write log.
WriteInnerHash ==
    /\ pc = "inner"
    /\ write_log' = protocol_write(write_log,
                        get_replay_protection_key(InnerHash), 1)
    /\ changed_keys' = changed_keys \cup {get_replay_protection_key(InnerHash)}
    /\ pc' = "done"
    /\ result' = "Ok"
    /\ steps' = Append(steps, "inner_hash")
    /\ UNCHANGED <<vps_vars, sig_vars, proto_vars, merge_vars, wrapper,
                   fee_unshield_transaction, block_proposer,
                   has_valid_pow, tx_size, storage, tx_gas_meter, unshield,
                   fee_call>>

Next ==
    \/ WriteWrapperHash
    \/ GenerateUnshieldingFails
    \/ RunUnshielding
    \/ HandleUnshieldingResult
    \/ ChargeOrCheckFees
    \/ CommitFee
    \/ AddTxSizeGas
    \/ WriteInnerHash

Spec == Init /\ [][Next]_vars

\* -------------------------------------------------------------------
\* Properties of fee charging
\* -------------------------------------------------------------------
Fees == get_tx_fee(wrapper)
TransferCalled == fee_call.called /\ fee_call.mode = "transfer"
CheckCalled == fee_call.called /\ fee_call.mode = "check"
PayerBalance == fee_call.pre[FeePayer]

\* The keys whose entry in the tx write log was written by the fee step.
FeeWrittenKeys ==
    {k \in DOMAIN fee_call.post_wl.tx_write_log :
        \/ k \notin DOMAIN fee_call.pre_wl.tx_write_log
        \/ fee_call.post_wl.tx_write_log[k] # fee_call.pre_wl.tx_write_log[k]}

\* The fee step touched nothing but the tx write log.
FeeStepOnlyTxLog ==
    /\ fee_call.post_wl.block_write_log = fee_call.pre_wl.block_write_log
    /\ fee_call.post_wl.tx_precommit_write_log =
          fee_call.pre_wl.tx_precommit_write_log

\* `amount` went from the payer to the proposer and nothing else moved.
Moved(amount) ==
    /\ fee_call.post[FeePayer] = fee_call.pre[FeePayer] - amount
    /\ fee_call.post[block_proposer] = fee_call.pre[block_proposer] + amount
    /\ \A a \in Address \ {FeePayer, block_proposer} :
          fee_call.post[a] = fee_call.pre[a]
    /\ FeeWrittenKeys \subseteq {balance_key(FeePayer), balance_key(block_proposer)}
    /\ FeeStepOnlyTxLog

NothingMoved == fee_call.post_wl = fee_call.pre_wl /\ fee_call.post = fee_call.pre

\* The credit of `amount` to the proposer is possible: the proposer is not
\* the payer and its balance does not overflow.
CanCredit(amount) ==
    /\ block_proposer # FeePayer
    /\ fee_call.pre[block_proposer] + amount <= MaxAmount

\* C1 as stated: transfer_fee with a known proposer and a payer balance B of
\* at least the fee F leaves the payer with B - F, the proposer with F more,
\* and every other balance as it was.
C1_Original ==
    (TransferCalled /\ Fees # NoAmount /\ PayerBalance >= Fees)
        => Moved(Fees)

\* C1 amended: the same, provided the proposer is not the payer itself and
\* the proposer's balance plus F fits the amount type; then the call also
\* succeeds.  Otherwise no balance is written at all (with the payer as
\* proposer the call succeeds, on an overflowing credit it is a fee error).
C1_FeePaid ==
    (TransferCalled /\ Fees # NoAmount /\ PayerBalance >= Fees)
        => IF CanCredit(Fees)
           THEN Moved(Fees) /\ fee_call.res = "Ok"
           ELSE /\ NothingMoved
                /\ fee_call.res =
                      IF block_proposer = FeePayer THEN "Ok" ELSE "FeeError"

C1_Witness ==
    /\ TransferCalled /\ Fees # NoAmount /\ Fees > 0 /\ PayerBalance >= Fees
    /\ CanCredit(Fees)
    /\ fee_call.res = "Ok"
    /\ fee_call.post[FeePayer] = PayerBalance - Fees

\* C2 as stated: with a payer balance B below the fee and no proof of work,
\* transfer_fee moves all of B to the proposer (the payer is left with 0, the
\* proposer gains B) and returns a fee error.
C2_Original ==
    (TransferCalled /\ Fees # NoAmount /\ PayerBalance < Fees /\ ~has_valid_pow)
        => /\ fee_call.res = "FeeError"
           /\ fee_call.post[FeePayer] = 0
           /\ Moved(PayerBalance)

\* C2 amended: the fee error is returned in every such call; the whole of B
\* is moved provided the proposer is not the payer itself and the proposer's
\* balance plus B fits the amount type, and otherwise no balance is written.
C2_Drained ==
    (TransferCalled /\ Fees # NoAmount /\ PayerBalance < Fees /\ ~has_valid_pow)
        => /\ fee_call.res = "FeeError"
           /\ IF CanCredit(PayerBalance)
              THEN Moved(PayerBalance) /\ fee_call.post[FeePayer] = 0
              ELSE NothingMoved

C2_Witness ==
    /\ TransferCalled /\ Fees # NoAmount /\ PayerBalance < Fees
    /\ ~has_valid_pow /\ PayerBalance > 0 /\ CanCredit(PayerBalance)
    /\ fee_call.res = "FeeError"
    /\ fee_call.post[FeePayer] = 0
    /\ fee_call.post[block_proposer] = fee_call.pre[block_proposer] + PayerBalance

\* The wrappers that can be drawn.
Wrappers == [amount_per_gas_unit : 0..MaxAmount, gas_limit : 1..MaxGasLimit]

\* What transfer_fee did in this run.
FeeOutcome == [wl |-> fee_call.post_wl, res |-> fee_call.res]

\* C3 as stated: a transfer_fee call whose fee overflows does to the balances
\* and returns exactly what a call with the same payer balance, proposer and
\* proof-of-work flag does whose fee exceeds the balance.
C3_Original ==
    (TransferCalled /\ Fees = NoAmount)
        => \A w \in Wrappers :
              (get_tx_fee(w) # NoAmount /\ PayerBalance < get_tx_fee(w))
                 => FeeOutcome = transfer_fee(fee_call.pre_wl, storage,
                                    block_proposer, has_valid_pow, w)

\* C3 amended: that holds when no proof of work is present.  An overflowing
\* fee moves the payer's funds and is a fee error whatever the flag says,
\* while an insufficient balance with a proof of work succeeds and moves
\* nothing.
C3_OverflowAsInsufficient ==
    (TransferCalled /\ Fees = NoAmount)
        => /\ fee_call.res = "FeeError"
           /\ \A w \in Wrappers :
                (get_tx_fee(w) # NoAmount /\ PayerBalance < get_tx_fee(w))
                   => /\ FeeOutcome = transfer_fee(fee_call.pre_wl, storage,
                                         block_proposer, FALSE, w)
                      /\ transfer_fee(fee_call.pre_wl, storage,
                             block_proposer, TRUE, w)
                           = [wl |-> fee_call.pre_wl, res |-> "Ok"]

C3_Witness ==
    /\ TransferCalled /\ Fees = NoAmount /\ ~has_valid_pow
    /\ PayerBalance > 0 /\ CanCredit(PayerBalance)
    /\ fee_call.post[FeePayer] = 0
    /\ \E w \in Wrappers :
          get_tx_fee(w) # NoAmount /\ PayerBalance < get_tx_fee(w)

\* C4: with a payer balance below the fee and a valid proof of work, the fee
\* step (transfer_fee, or check_fees when no proposer is known) succeeds and
\* writes nothing.
C4_PowSkipsFee ==
    (fee_call.called /\ Fees # NoAmount /\ PayerBalance < Fees /\ has_valid_pow)
        => fee_call.res = "Ok" /\ NothingMoved

C4_Witness ==
    /\ TransferCalled /\ Fees # NoAmount /\ PayerBalance < Fees /\ has_valid_pow
    /\ PayerBalance > 0 /\ CanCredit(PayerBalance)
    /\ fee_call.res = "Ok"

\* C5 as stated: without a proposer and without an unshielding section the
\* fee step returns Ok exactly if the balance covers the fee or a proof of
\* work is present, and writes nothing either way.
C5_Original ==
    (CheckCalled /\ fee_unshield_transaction = "None")
        => /\ fee_call.res = "Ok"
                <=> ((Fees # NoAmount /\ PayerBalance >= Fees) \/ has_valid_pow)
           /\ NothingMoved

\* C5 amended: it returns Ok exactly if the fee amount does not overflow and
\* the balance covers it or a proof of work is present; an overflowing fee is
\* a fee error even with a proof of work.  No balance is written either way,
\* up to the end of apply_wrapper_tx.
C5_CheckOnly ==
    (CheckCalled /\ fee_unshield_transaction = "None")
        => /\ fee_call.res = "Ok"
                <=> (Fees # NoAmount /\ (PayerBalance >= Fees \/ has_valid_pow))
           /\ NothingMoved
           /\ BalanceView(write_log, storage) = fee_call.pre
           /\ \A a \in Address : fee_call.pre[a] = storage[balance_key(a)]
           /\ changed_keys \cap BalanceKeys = {}

C5_Witness ==
    /\ CheckCalled /\ fee_unshield_transaction = "None"
    /\ Fees = NoAmount /\ has_valid_pow
    /\ fee_call.res = "FeeError"
    /\ pc = "done"

\* -------------------------------------------------------------------
\* Properties of apply_wrapper_tx and charge_fee
\* -------------------------------------------------------------------
WrapperMarker == get_replay_protection_key(WrapperHash)
InnerMarker == get_replay_protection_key(InnerHash)

InAnyLayer(wl, key) ==
    \/ key \in DOMAIN wl.tx_write_log
    \/ key \in DOMAIN wl.tx_precommit_write_log
    \/ key \in DOMAIN wl.block_write_log

\* The balances as the committed storage holds them.
StoredBalances == [a \in Address |-> storage[balance_key(a)]]

\* C6: the replay marker of the wrapper's header hash is the first thing
\* apply_wrapper_tx writes, and it stays in the block write log whatever
\* happens afterwards: fee error, failed or dropped unshielding, gas error.
C6_WrapperMarkerPersists ==
    /\ steps # <<>> => steps[1] = "wrapper_hash"
    /\ pc # "start" =>
          /\ WrapperMarker \in DOMAIN write_log.block_write_log
          /\ WrapperMarker \in changed_keys

C6_Witness ==
    /\ pc = "done" /\ result = "FeeError"
    /\ unshield.outcome = "Rejected"
    /\ fee_call.post # fee_call.pre
    /\ WrapperMarker \in DOMAIN write_log.block_write_log

IsPrefix(s, t) ==
    /\ Len(s) <= Len(t)
    /\ \A i \in 1..Len(s) : s[i] = t[i]

\* C7 as stated: the steps run in the order wrapper marker, fee charging
\* (unshielding, then the fee transfer and its commit), inner marker, gas for
\* the wrapper's size; the inner marker is written before that gas is charged.
C7_Original ==
    \/ IsPrefix(steps, <<"wrapper_hash", "fee", "commit",
                         "inner_hash", "size_gas">>)
    \/ IsPrefix(steps, <<"wrapper_hash", "unshield", "fee", "commit",
                         "inner_hash", "size_gas">>)

\* C7 amended: the order is wrapper marker, fee charging, gas for the
\* wrapper's size, inner marker; the inner marker is written last, and only
\* after that gas was charged within the gas limit.
C7_StepOrder ==
    /\ \/ IsPrefix(steps, <<"wrapper_hash", "fee", "commit",
                            "size_gas", "inner_hash">>)
       \/ IsPrefix(steps, <<"wrapper_hash", "unshield", "fee", "commit",
                            "size_gas", "inner_hash">>)
    /\ InAnyLayer(write_log, InnerMarker) =>
          /\ tx_gas_meter.transaction_gas = tx_size * TX_SIZE_GAS_PER_BYTE
          /\ tx_gas_meter.transaction_gas <= tx_gas_meter.tx_gas_limit
          /\ pc = "done" /\ result = "Ok"

C7_Witness ==
    /\ pc = "done" /\ result = "Ok"
    /\ steps = <<"wrapper_hash", "unshield", "fee", "commit",
                 "size_gas", "inner_hash">>
    /\ InnerMarker \in DOMAIN write_log.block_write_log

\* The writes the fee step (unshielding and fee transfer) left to commit.
FeeEffects ==
    LogExtend(fee_call.post_wl.tx_precommit_write_log,
              fee_call.post_wl.tx_write_log)

Committed(log) ==
    \A k \in DOMAIN log :
        /\ k \in DOMAIN write_log.block_write_log
        /\ write_log.block_write_log[k] = log[k]

TxLogsEmpty ==
    /\ write_log.tx_write_log = EmptyLog
    /\ write_log.tx_precommit_write_log = EmptyLog

\* No effect of fee charging or of the inner marker is in the write log:
\* every balance reads as the committed storage holds it.
NoEffects ==
    /\ BalanceView(write_log, storage) = StoredBalances
    /\ ~InAnyLayer(write_log, MaspKey)
    /\ ~InAnyLayer(write_log, InnerMarker)

AllEffects ==
    /\ fee_call.called /\ fee_call.res = "Ok"
    /\ Committed(FeeEffects)
    /\ InnerMarker \in DOMAIN write_log.block_write_log
    /\ tx_gas_meter.transaction_gas = tx_size * TX_SIZE_GAS_PER_BYTE

\* C8 as stated: when apply_wrapper_tx is over, either it returned Ok and
\* fee charging, inner marker and gas charge all took effect, or it returned
\* an error and none of them is in the write log.
C8_Original ==
    pc = "done" =>
        \/ result = "Ok" /\ AllEffects
        \/ result # "Ok" /\ NoEffects

\* C8 amended: Ok means that fee charging, gas charge and inner marker all
\* took effect and are committed to the block write log.  A gas error means
\* that the effects of fee charging are committed to the block write log all
\* the same, and the inner marker is absent.  A fee error means that the block
\* write log holds the wrapper marker only, no gas was charged and the inner
\* marker is absent, while the writes of the fee step (funds moved to the
\* proposer, an accepted unshielding) are left uncommitted in the tx write
\* log.
C8_Outcomes ==
    pc = "done" =>
        /\ result \in {"Ok", "GasError", "FeeError"}
        /\ result = "Ok" =>
              /\ AllEffects /\ TxLogsEmpty
              /\ tx_gas_meter.transaction_gas <= tx_gas_meter.tx_gas_limit
              /\ DOMAIN write_log.block_write_log =
                    {WrapperMarker, InnerMarker} \cup DOMAIN FeeEffects
              /\ changed_keys = DOMAIN write_log.block_write_log
        /\ result = "GasError" =>
              /\ fee_call.called /\ fee_call.res = "Ok"
              /\ Committed(FeeEffects) /\ TxLogsEmpty
              /\ tx_gas_meter.transaction_gas > tx_gas_meter.tx_gas_limit
              /\ DOMAIN write_log.block_write_log =
                    {WrapperMarker} \cup DOMAIN FeeEffects
        /\ result = "FeeError" =>
              /\ fee_call.called /\ fee_call.res = "FeeError"
              /\ write_log = fee_call.post_wl
              /\ DOMAIN write_log.block_write_log = {WrapperMarker}
              /\ tx_gas_meter.transaction_gas = 0

C8_Witness ==
    /\ pc = "done" /\ result = "GasError"
    /\ fee_call.post[FeePayer] < fee_call.pre[FeePayer]
    /\ balance_key(FeePayer) \in DOMAIN write_log.block_write_log
    /\ ~InAnyLayer(write_log, InnerMarker)

\* The nested unshielding tx ran and failed or was rejected.
UnshieldFailed ==
    unshield.resolved /\ unshield.outcome \in {"TxErr", "VpsErr", "Rejected"}

\* The keys only the unshielding tx writes.
NestedOnlyKeys == {balance_key(Masp), MaspKey}

\* C9: when the nested unshielding tx fails or is rejected by a VP, all it
\* wrote is discarded and what was written before it is kept, charge_fee goes
\* on to the fee step, the fee is charged against the payer's transparent
\* balance, and neither the changed keys nor the write log hold a key the
\* nested tx alone wrote.
C9_FailedUnshieldDiscarded ==
    UnshieldFailed =>
        /\ \A k \in NestedOnlyKeys :
              ~InAnyLayer(write_log, k) /\ k \notin changed_keys
        /\ \A k \in DOMAIN unshield.prior :
              /\ InAnyLayer(write_log, k)
              /\ Read(write_log, storage, k) = unshield.prior[k]
        /\ pc = "fee" =>
              /\ write_log.tx_write_log = EmptyLog
              /\ write_log.tx_precommit_write_log = unshield.prior
              /\ BalanceView(write_log, storage) = StoredBalances
        /\ pc # "fee" => fee_call.called
        /\ fee_call.called =>
              /\ fee_call.pre = StoredBalances
              /\ block_proposer # NoProposer =>
                    [wl |-> fee_call.post_wl, res |-> fee_call.res] =
                       transfer_fee(fee_call.pre_wl, storage, block_proposer,
                                    has_valid_pow, wrapper)
        /\ result = "Ok" =>
              changed_keys \subseteq
                 {WrapperMarker, InnerMarker} \cup DOMAIN unshield.prior
                    \cup {balance_key(FeePayer), balance_key(block_proposer)}

C9_Witness ==
    /\ pc = "done" /\ result = "Ok"
    /\ unshield.outcome = "Rejected"
    /\ NestedOnlyKeys \subseteq DOMAIN unshield.writes
    /\ unshield.prior # EmptyLog
    /\ fee_call.post[FeePayer] < fee_call.pre[FeePayer]

\* charge_fee has returned, to apply_wrapper_tx or with an error.
ChargeFeeReturned == pc \in {"gas", "inner", "done"}
NestedRan == unshield.outcome \in {"TxErr", "VpsErr", "Rejected", "Accepted"}
\* The keys the nested tx wrote and nothing else writes.
NestedWritten == DOMAIN unshield.writes \cap NestedOnlyKeys

AllDiscarded ==
    /\ \A k \in NestedOnlyKeys : ~InAnyLayer(write_log, k)
    /\ fee_call.pre = StoredBalances

AllPromoted ==
    /\ \A k \in NestedWritten :
          /\ k \in DOMAIN write_log.block_write_log
          /\ write_log.block_write_log[k] = unshield.writes[k]
    /\ balance_key(FeePayer) \in DOMAIN write_log.block_write_log
    /\ fee_call.pre[FeePayer] = unshield.writes[balance_key(FeePayer)]
    /\ TxLogsEmpty

AllPending ==
    /\ \A k \in DOMAIN unshield.writes :
          /\ k \in DOMAIN write_log.tx_write_log
          /\ k \notin DOMAIN write_log.block_write_log
          /\ k \notin DOMAIN write_log.tx_precommit_write_log
    /\ \A k \in NestedWritten :
          write_log.tx_write_log[k] = unshield.writes[k]
    /\ fee_call.pre[FeePayer] = unshield.writes[balance_key(FeePayer)]

\* C10 as stated: when charge_fee returns, the writes of the nested
\* unshielding tx are either all discarded or all promoted together; none is
\* promoted alone and none is left pending in the tx write log.
C10_Original ==
    (ChargeFeeReturned /\ NestedRan) => (AllDiscarded \/ AllPromoted)

\* C10 amended: no subset of them is ever promoted.  When charge_fee returns
\* they are all discarded if the unshielding was not accepted, all committed
\* together with the fee transfer if it was accepted and the fee step
\* succeeded, and all left pending in the tx write log, none promoted, if it
\* was accepted and the fee step returned a fee error.
C10_NoPartialPromotion ==
    /\ \/ NestedOnlyKeys \cap DOMAIN write_log.block_write_log = {}
       \/ NestedOnlyKeys \subseteq DOMAIN write_log.block_write_log
    /\ NestedOnlyKeys \cap DOMAIN write_log.tx_precommit_write_log = {}
    /\ (ChargeFeeReturned /\ NestedRan) =>
          IF unshield.outcome # "Accepted" THEN AllDiscarded
          ELSE IF fee_call.res = "Ok" THEN AllPromoted
          ELSE AllPending /\ result = "FeeError" /\ pc = "done"

C10_Witness ==
    /\ pc = "done" /\ result = "FeeError"
    /\ unshield.outcome = "Accepted"
    /\ AllPending
    /\ fee_call.post[FeePayer] = 0
    /\ fee_call.post[block_proposer] > fee_call.pre[block_proposer]
\* The variables of the wrapper flow that VP execution does not touch.
wrapper_vars ==
    <<wrapper, fee_unshield_transaction, block_proposer, has_valid_pow,
      tx_size, storage, changed_keys, pc, result, unshield, fee_call, steps>>

\* The wrapper flow is not running.
WrapperIdle ==
    /\ wrapper = [amount_per_gas_unit |-> 0, gas_limit |-> 1]
    /\ fee_unshield_transaction = "None"
    /\ block_proposer = NoProposer
    /\ has_valid_pow = FALSE
    /\ tx_size = 1
    /\ storage = [k \in BalanceKeys |-> 0]
    /\ changed_keys = {}
    /\ pc = "idle"
    /\ result = "none"
    /\ unshield = NoUnshield
    /\ fee_call = NoFeeCall
    /\ steps = <<>>

InitVps ==
    /\ ProtoIdle("none")
    /\ WrapperIdle
    /\ SigIdle
    /\ MergeIdle
    /\ write_log = [block_write_log |-> EmptyLog,
                    tx_precommit_write_log |-> EmptyLog,
                    tx_write_log |-> EmptyLog]
    /\ tx_gas_meter \in [tx_gas_limit : 1..MaxGasLimit, transaction_gas : {0}]
    /\ verifiers = {}
    /\ vp_env = [a \in {} |-> 0]
    /\ chunks = <<>>
    /\ vps_pc = "tx"
    /\ vps_result = VpsResultDefault
    /\ vp_trace = NoVpTrace
    /\ ibc_events = {}
    /\ tx_result = NoTxResult

\* The sets of at most MaxVerifiers verifier addresses.
VerifierSets == {vs \in SUBSET VerifierAddress : Cardinality(vs) <= MaxVerifiers}

\* The writes of the transaction code: one key under each touched account.
RECURSIVE TxWrites(_, _)
TxWrites(wl, touched) ==
    IF touched = {} THEN wl
    ELSE LET a == CHOOSE x \in touched : TRUE
         IN  TxWrites(wl_write(wl, account_key(a), 1), touched \ {a})

\* execute_tx: the transaction code runs; it writes to the tx write log,
\* uses gas and names verifiers, or fails.
ExecuteTx ==
    /\ vps_pc = "tx"
    /\ \/ /\ \E e \in {"GasError", "TxRunnerError"} : tx_result' = TxError(e)
          /\ vps_pc' = "done"
          /\ UNCHANGED <<write_log, tx_gas_meter, verifiers, vp_env,
                         vp_trace, ibc_events>>
       \/ \E vs \in VerifierSets, gas \in {0, tx_gas_meter.tx_gas_limit} :
          \E from_tx \in {{}, vs} :
          \E env \in [vs -> UNION {VpEnv(a) : a \in vs}] :
             /\ \A a \in vs : env[a] \in VpEnv(a)
             /\ write_log' = TxWrites(write_log, vs \ from_tx)
             /\ tx_gas_meter' = [tx_gas_meter EXCEPT !.transaction_gas = gas]
             /\ verifiers' = from_tx
             /\ vp_env' = env
             /\ ibc_events' = IF IbcToken \in vs THEN {"ibc_event"} ELSE {}
             /\ vp_trace' = [vp_trace EXCEPT
                   !.tx_ran = TRUE,
                   !.write_log = write_log',
                   !.changed_keys = get_keys(write_log')]
             /\ vps_pc' = "split"
             /\ UNCHANGED tx_result
    /\ UNCHANGED <<chunks, vps_result>>
    /\ UNCHANGED <<wrapper_vars, sig_vars, proto_vars, merge_vars>>

\* check_vps: the verifier set is completed from the write log and handed
\* to the parallel iterator, which cuts it into chunks.
CheckVpsStart ==
    /\ vps_pc = "split"
    /\ verifiers' = verifiers_and_changed_keys(write_log, verifiers)
    /\ \E p \in Partitions(VerifierSeq(verifiers')) :
          chunks' = [i \in 1..Len(p) |->
                        [todo |-> p[i], res |-> VpsResultDefault]]
    /\ vp_trace' = [vp_trace EXCEPT !.tx_gas_meter = tx_gas_meter]
    /\ vps_pc' = "fold"
    /\ UNCHANGED <<write_log, tx_gas_meter, vp_env, vps_result, ibc_events,
                   tx_result>>
    /\ UNCHANGED <<wrapper_vars, sig_vars, proto_vars, merge_vars>>

\* FoldVp whose gas meter starts from the gas already used by the chunk.
FoldVp_shared_meter(i) ==
    /\ vps_pc = "fold"
    /\ chunks[i].todo # <<>>
    /\ chunks[i].res.kind = "Ok"
    /\ LET addr == Head(chunks[i].todo)
           gas_meter == [new_from_tx_meter(tx_gas_meter) EXCEPT
                            !.current_gas = chunks[i].res.gas_used]
           run == run_vp(addr, vp_env[addr], verifiers, gas_meter)
           res == fold_result([chunks[i].res EXCEPT !.gas_used = 0], addr, run)
       IN  /\ chunks' = [chunks EXCEPT ![i] =
                  [todo |-> IF res.kind = "Ok" THEN Tail(chunks[i].todo)
                            ELSE <<>>,
                   res |-> res]]
           /\ vp_trace' = [vp_trace EXCEPT !.evaluated =
                  [a \in DOMAIN @ \cup {addr} |->
                      IF a = addr
                      THEN [gas_meter |-> gas_meter, accept |-> run.accept,
                            gas |-> run.gas_meter.current_gas,
                            ret |-> IF res.kind = "Ok" THEN "Ok" ELSE res.err]
                      ELSE @[a]]]
    /\ UNCHANGED <<write_log, tx_gas_meter, verifiers, vp_env, vps_pc,
                   vps_result, ibc_events, tx_result>>
    /\ UNCHANGED <<wrapper_vars, sig_vars, proto_vars, merge_vars>>

\* FoldVp that also records the verifier's key in the tx write log.
FoldVp_writes(i) ==
    /\ vps_pc = "fold"
    /\ chunks[i].todo # <<>>
    /\ chunks[i].res.kind = "Ok"
    /\ LET addr == Head(chunks[i].todo)
           gas_meter == new_from_tx_meter(tx_gas_meter)
           run == run_vp(addr, vp_env[addr], verifiers, gas_meter)
           res == fold_result(chunks[i].res, addr, run)
       IN  /\ chunks' = [chunks EXCEPT ![i] =
                  [todo |-> IF res.kind = "Ok" THEN Tail(chunks[i].todo)
                            ELSE <<>>,
                   res |-> res]]
           /\ write_log' = wl_write(write_log, account_key(addr), 2)
           /\ vp_trace' = [vp_trace EXCEPT !.evaluated =
                  [a \in DOMAIN @ \cup {addr} |->
                      IF a = addr
                      THEN [gas_meter |-> gas_meter, accept |-> run.accept,
                            gas |-> run.gas_meter.current_gas,
                            ret |-> IF res.kind = "Ok" THEN "Ok" ELSE res.err]
                      ELSE @[a]]]
    /\ UNCHANGED <<tx_gas_meter, verifiers, vp_env, vps_pc,
                   vps_result, ibc_events, tx_result>>
    /\ UNCHANGED <<wrapper_vars, sig_vars, proto_vars, merge_vars>>

\* execute_vps, the closure of try_fold: chunk i evaluates its next
\* verifier with a gas meter of its own and files the verdict; an error
\* ends the chunk.
FoldVp(i) ==
    /\ vps_pc = "fold"
    /\ chunks[i].todo # <<>>
    /\ chunks[i].res.kind = "Ok"
    /\ LET addr == Head(chunks[i].todo)
           gas_meter == new_from_tx_meter(tx_gas_meter)
           run == run_vp(addr, vp_env[addr], verifiers, gas_meter)
           res == fold_result(chunks[i].res, addr, run)
       IN  /\ chunks' = [chunks EXCEPT ![i] =
                  [todo |-> IF res.kind = "Ok" THEN Tail(chunks[i].todo)
                            ELSE <<>>,
                   res |-> res]]
           /\ vp_trace' = [vp_trace EXCEPT !.evaluated =
                  [a \in DOMAIN @ \cup {addr} |->
                      IF a = addr
                      THEN [gas_meter |-> gas_meter, accept |-> run.accept,
                            gas |-> run.gas_meter.current_gas,
                            ret |-> IF res.kind = "Ok" THEN "Ok" ELSE res.err]
                      ELSE @[a]]]
    /\ UNCHANGED <<write_log, tx_gas_meter, verifiers, vp_env, vps_pc,
                   vps_result, ibc_events, tx_result>>
    /\ UNCHANGED <<wrapper_vars, sig_vars, proto_vars, merge_vars>>

\* try_fold short-circuits: once some chunk has failed, another chunk may
\* give up the verifiers it has not evaluated yet.
StopEarly(i) ==
    /\ vps_pc = "fold"
    /\ \E j \in 1..Len(chunks) : chunks[j].res.kind # "Ok"
    /\ chunks[i].todo # <<>>
    /\ chunks[i].res.kind = "Ok"
    /\ chunks' = [chunks EXCEPT ![i].todo = <<>>]
    /\ UNCHANGED <<write_log, tx_gas_meter, verifiers, vp_env, vps_pc,
                   vps_result, vp_trace, ibc_events, tx_result>>
    /\ UNCHANGED <<wrapper_vars, sig_vars, proto_vars, merge_vars>>

\* try_reduce of two neighbouring results: the first error wins, two Ok
\* results go through merge_vp_results.
reduce_results(a, b, tx_meter) ==
    IF a.kind # "Ok" THEN a
    ELSE IF b.kind # "Ok" THEN b
    ELSE merge_vp_results(a, b, tx_meter)

\* execute_vps, try_reduce: two finished neighbouring chunks are merged.
ReduceVps(i) ==
    /\ vps_pc = "fold"
    /\ i + 1 <= Len(chunks)
    /\ chunks[i].todo = <<>>
    /\ chunks[i + 1].todo = <<>>
    /\ chunks' = [j \in 1..(Len(chunks) - 1) |->
                    IF j < i THEN chunks[j]
                    ELSE IF j = i
                    THEN [todo |-> <<>>,
                          res |-> reduce_results(chunks[i].res,
                                      chunks[i + 1].res, tx_gas_meter)]
                    ELSE chunks[j + 1]]
    /\ vp_trace' = [vp_trace EXCEPT !.merge_failed =
          @ \/ (/\ chunks[i].res.kind = "Ok"
                /\ chunks[i + 1].res.kind = "Ok"
                /\ chunks'[i].res.kind # "Ok")]
    /\ UNCHANGED <<write_log, tx_gas_meter, verifiers, vp_env, vps_pc,
                   vps_result, ibc_events, tx_result>>
    /\ UNCHANGED <<wrapper_vars, sig_vars, proto_vars, merge_vars>>

\* CheckVpsReturn that adds the VPs' gas to the tx meter twice.
CheckVpsReturn_adds_twice ==
    /\ vps_pc = "fold"
    /\ Len(chunks) <= 1
    /\ Len(chunks) = 1 => chunks[1].todo = <<>>
    /\ LET out == IF chunks = <<>> THEN VpsResultDefault ELSE chunks[1].res
           once == add_vps_gas(tx_gas_meter, out.gas_used)
           added == add_vps_gas(once.meter, out.gas_used)
       IN  /\ vps_result' = out
           /\ IF out.kind # "Ok"
              THEN /\ tx_result' = TxError(out.err)
                   /\ vps_pc' = "done"
                   /\ UNCHANGED <<tx_gas_meter, vp_trace>>
              ELSE /\ tx_gas_meter' = added.meter
                   /\ vp_trace' = [vp_trace EXCEPT !.vps_gas_added = @ + 1]
                   /\ tx_result' = IF added.res = "Ok" THEN tx_result
                                   ELSE TxError(added.res)
                   /\ vps_pc' = IF added.res = "Ok" THEN "finish" ELSE "done"
    /\ UNCHANGED <<write_log, verifiers, vp_env, chunks, ibc_events>>
    /\ UNCHANGED <<wrapper_vars, sig_vars, proto_vars, merge_vars>>

\* execute_vps returns the reduced result to check_vps, which passes an
\* error on and otherwise adds the VPs' gas to the tx gas meter.
CheckVpsReturn ==
    /\ vps_pc = "fold"
    /\ Len(chunks) <= 1
    /\ Len(chunks) = 1 => chunks[1].todo = <<>>
    /\ LET out == IF chunks = <<>> THEN VpsResultDefault ELSE chunks[1].res
           added == add_vps_gas(tx_gas_meter, out.gas_used)
       IN  /\ vps_result' = out
           /\ IF out.kind # "Ok"
              THEN /\ tx_result' = TxError(out.err)
                   /\ vps_pc' = "done"
                   /\ UNCHANGED <<tx_gas_meter, vp_trace>>
              ELSE /\ tx_gas_meter' = added.meter
                   /\ vp_trace' = [vp_trace EXCEPT !.vps_gas_added = @ + 1]
                   /\ tx_result' = IF added.res = "Ok" THEN tx_result
                                   ELSE TxError(added.res)
                   /\ vps_pc' = IF added.res = "Ok" THEN "finish" ELSE "done"
    /\ UNCHANGED <<write_log, verifiers, vp_env, chunks, ibc_events>>
    /\ UNCHANGED <<wrapper_vars, sig_vars, proto_vars, merge_vars>>

\* apply_wasm_tx after check_vps: the TxResult is assembled and the IBC
\* events are taken out of the write log.
FinishApplyWasmTx ==
    /\ vps_pc = "finish"
    /\ tx_result' = [res |-> "Ok",
                     gas_used |-> tx_gas_meter.transaction_gas,
                     changed_keys |-> get_keys(write_log),
                     vps_result |-> vps_result,
                     ibc_events |-> ibc_events]
    /\ ibc_events' = {}
    /\ vps_pc' = "done"
    /\ UNCHANGED <<write_log, tx_gas_meter, verifiers, vp_env, chunks,
                   vps_result, vp_trace>>
    /\ UNCHANGED <<wrapper_vars, sig_vars, proto_vars, merge_vars>>

NextVps ==
    \/ ExecuteTx
    \/ CheckVpsStart
    \/ \E i \in 1..Len(chunks) : FoldVp(i)
    \/ \E i \in 1..Len(chunks) : StopEarly(i)
    \/ \E i \in 1..Len(chunks) : ReduceVps(i)
    \/ CheckVpsReturn
    \/ FinishApplyWasmTx

SpecVps == InitVps /\ [][NextVps]_vars

\* ------------------------------------------------- merge_vp_results alone
\* The partial results a chunk of the fold may hand to the reduction.
VpsResults ==
    [kind : {"Ok"}, err : {"none"},
     accepted_vps : SUBSET {Established, PoS},
     rejected_vps : SUBSET {Multitoken},
     gas_used : 0..MaxVpGas,
     errors : {<<>>}]

InitMerge ==
    /\ ProtoIdle("none")
    /\ WrapperIdle
    /\ VpsIdle
    /\ SigIdle
    /\ write_log = [block_write_log |-> EmptyLog,
                    tx_precommit_write_log |-> EmptyLog,
                    tx_write_log |-> EmptyLog]
    /\ tx_gas_meter = [tx_gas_limit |-> 1, transaction_gas |-> 0]
    /\ merge_args \in [a : VpsResults, b : VpsResults, c : VpsResults,
                       tx_gas_meter : [tx_gas_limit : 1..MaxGasLimit,
                                       transaction_gas : {0}]]
    /\ merge_out = {}

\* What the comparison of two merges looks at.
MergeView(r) ==
    [kind |-> r.kind, accepted_vps |-> r.accepted_vps,
     rejected_vps |-> r.rejected_vps, gas_used |-> r.gas_used]

\* The three results in one of their six orders.
MergeOrders ==
    LET a == merge_args.a
        b == merge_args.b
        c == merge_args.c
    IN  {<<a, b, c>>, <<a, c, b>>, <<b, a, c>>, <<b, c, a>>, <<c, a, b>>,
         <<c, b, a>>}

\* Two results are merged in both operand orders.
MergePair ==
    /\ merge_out = {}
    /\ merge_out' =
          {[pairing |-> "pair", order |-> <<o[1], o[2]>>,
            out |-> MergeView(reduce_results(o[1], o[2],
                                  merge_args.tx_gas_meter))] :
             o \in {<<merge_args.a, merge_args.b>>,
                    <<merge_args.b, merge_args.a>>}}
    /\ UNCHANGED merge_args
    /\ UNCHANGED <<wrapper_vars, vps_vars, sig_vars, proto_vars, write_log, tx_gas_meter>>

\* Three results are merged in every operand order and both pairings.
MergeTriple ==
    /\ \A m \in merge_out : m.pairing = "pair"
    /\ merge_out # {}
    /\ LET meter == merge_args.tx_gas_meter
       IN  merge_out' =
             {[pairing |-> "left", order |-> o,
               out |-> MergeView(reduce_results(
                          reduce_results(o[1], o[2], meter), o[3], meter))] :
                o \in MergeOrders}
             \cup
             {[pairing |-> "right", order |-> o,
               out |-> MergeView(reduce_results(o[1],
                          reduce_results(o[2], o[3], meter), meter))] :
                o \in MergeOrders}
    /\ UNCHANGED merge_args
    /\ UNCHANGED <<wrapper_vars, vps_vars, sig_vars, proto_vars, write_log, tx_gas_meter>>

NextMerge ==
    \/ MergePair
    \/ MergeTriple

SpecMerge == InitMerge /\ [][NextMerge]_vars

\* -------------------------------------------- verify_section_signatures
\* Neither apply_wrapper_tx nor apply_wasm_tx is running.
LedgerIdle ==
    /\ WrapperIdle
    /\ VpsIdle
    /\ MergeIdle
    /\ write_log = [block_write_log |-> EmptyLog,
                    tx_precommit_write_log |-> EmptyLog,
                    tx_write_log |-> EmptyLog]
    /\ tx_gas_meter = [tx_gas_limit |-> 1, transaction_gas |-> 0]

ledger_vars ==
    <<wrapper_vars, vps_vars, merge_vars, write_log, tx_gas_meter>>

\* The start of verify_section_signatures: a transaction, the arguments
\* and a gas meter whose limit is small or pays for every signature check
\* of two sections.
InitSig ==
    /\ ProtoIdle("none")
    /\ LedgerIdle
    /\ sig_tx \in SigTxs
    /\ sig_args \in [hashes : {{DataHash}}, threshold : 0..MaxSigners,
                     max_signatures : {1, u8_MAX}]
    /\ sig_gas_meter \in
          [tx_gas_limit :
              0..MaxGasLimit \cup {2 * MaxSigners * VERIFY_TX_SIG_GAS_COST},
           initial_gas : {0}, current_gas : {0}]
    /\ sig_pc = [section |-> 1, at |-> "section"]
    /\ sig_todo = <<>>
    /\ valid_signatures = 0
    /\ sig_result = "none"
    /\ sig_checked = 0

\* VerifySection that lets a transaction without signature sections pass.
VerifySection_empty_passes ==
    /\ sig_pc.at = "section"
    /\ IF sig_pc.section > Len(sig_tx)
       THEN /\ sig_result' = IF sig_tx = <<>> THEN "Ok"
                              ELSE "invalid signatures."
            /\ sig_pc' = [sig_pc EXCEPT !.at = "done"]
            /\ UNCHANGED sig_todo
       ELSE LET section == sig_tx[sig_pc.section]
                checked == section_checks(sig_tx, section, sig_args.hashes,
                               sig_args.threshold, sig_args.max_signatures)
            IN  IF checked # "Ok"
                THEN /\ sig_result' = checked
                     /\ sig_pc' = [sig_pc EXCEPT !.at = "done"]
                     /\ UNCHANGED sig_todo
                ELSE /\ sig_todo' = SortedIndices(DOMAIN section.signatures)
                     /\ sig_pc' = [sig_pc EXCEPT !.at = "signatures"]
                     /\ UNCHANGED sig_result
    /\ UNCHANGED <<sig_tx, sig_args, sig_gas_meter, valid_signatures,
                   sig_checked>>
    /\ UNCHANGED <<ledger_vars, proto_vars>>

\* The body of the loop over the sections up to the loop over the
\* signatures; past the last section the verification has failed.
VerifySection ==
    /\ sig_pc.at = "section"
    /\ IF sig_pc.section > Len(sig_tx)
       THEN /\ sig_result' = "invalid signatures."
            /\ sig_pc' = [sig_pc EXCEPT !.at = "done"]
            /\ UNCHANGED sig_todo
       ELSE LET section == sig_tx[sig_pc.section]
                checked == section_checks(sig_tx, section, sig_args.hashes,
                               sig_args.threshold, sig_args.max_signatures)
            IN  IF checked # "Ok"
                THEN /\ sig_result' = checked
                     /\ sig_pc' = [sig_pc EXCEPT !.at = "done"]
                     /\ UNCHANGED sig_todo
                ELSE /\ sig_todo' = SortedIndices(DOMAIN section.signatures)
                     /\ sig_pc' = [sig_pc EXCEPT !.at = "signatures"]
                     /\ UNCHANGED sig_result
    /\ UNCHANGED <<sig_tx, sig_args, sig_gas_meter, valid_signatures,
                   sig_checked>>
    /\ UNCHANGED <<ledger_vars, proto_vars>>

\* VerifySignatureIndex that counts the signature before paying for it.
VerifySignatureIndex_counts_first ==
    /\ sig_pc.at = "signatures"
    /\ sig_todo # <<>>
    /\ LET section == sig_tx[sig_pc.section]
           is_valid_signature == section.signatures[Head(sig_todo)]
           paid == consume(sig_gas_meter, VERIFY_TX_SIG_GAS_COST)
           valid == IF is_valid_signature THEN valid_signatures + 1
                    ELSE valid_signatures
       IN  /\ sig_checked' = sig_checked + 1
           /\ sig_gas_meter' = paid.gas_meter
           /\ valid_signatures' = valid
           /\ IF valid >= sig_args.threshold
              THEN /\ sig_result' = "Ok"
                   /\ sig_pc' = [sig_pc EXCEPT !.at = "done"]
                   /\ UNCHANGED sig_todo
              ELSE IF ~paid.ok
              THEN /\ sig_result' = "OutOfGas"
                   /\ sig_pc' = [sig_pc EXCEPT !.at = "done"]
                   /\ UNCHANGED sig_todo
              ELSE /\ sig_todo' = Tail(sig_todo)
                   /\ UNCHANGED <<sig_result, sig_pc>>
    /\ UNCHANGED <<sig_tx, sig_args>>
    /\ UNCHANGED <<ledger_vars, proto_vars>>

\* VerifySignatureIndex that counts every signature as valid.
VerifySignatureIndex_counts_invalid ==
    /\ sig_pc.at = "signatures"
    /\ sig_todo # <<>>
    /\ LET paid == consume(sig_gas_meter, VERIFY_TX_SIG_GAS_COST)
           valid == valid_signatures + 1
       IN  /\ sig_checked' = sig_checked + 1
           /\ sig_gas_meter' = paid.gas_meter
           /\ IF ~paid.ok
              THEN /\ sig_result' = "OutOfGas"
                   /\ sig_pc' = [sig_pc EXCEPT !.at = "done"]
                   /\ UNCHANGED <<sig_todo, valid_signatures>>
              ELSE /\ valid_signatures' = valid
                   /\ IF valid >= sig_args.threshold
                      THEN /\ sig_result' = "Ok"
                           /\ sig_pc' = [sig_pc EXCEPT !.at = "done"]
                           /\ UNCHANGED sig_todo
                      ELSE /\ sig_todo' = Tail(sig_todo)
                           /\ UNCHANGED <<sig_result, sig_pc>>
    /\ UNCHANGED <<sig_tx, sig_args>>
    /\ UNCHANGED <<ledger_vars, proto_vars>>

\* One turn of the loop over the signatures of a section: the signature is
\* verified, the check is paid for, a valid one is counted and the
\* threshold compared.
VerifySignatureIndex ==
    /\ sig_pc.at = "signatures"
    /\ sig_todo # <<>>
    /\ LET section == sig_tx[sig_pc.section]
           is_valid_signature == section.signatures[Head(sig_todo)]
           paid == consume(sig_gas_meter, VERIFY_TX_SIG_GAS_COST)
           valid == IF is_valid_signature THEN valid_signatures + 1
                    ELSE valid_signatures
       IN  /\ sig_checked' = sig_checked + 1
           /\ sig_gas_meter' = paid.gas_meter
           /\ IF ~paid.ok
              THEN /\ sig_result' = "OutOfGas"
                   /\ sig_pc' = [sig_pc EXCEPT !.at = "done"]
                   /\ UNCHANGED <<sig_todo, valid_signatures>>
              ELSE /\ valid_signatures' = valid
                   /\ IF valid >= sig_args.threshold
                      THEN /\ sig_result' = "Ok"
                           /\ sig_pc' = [sig_pc EXCEPT !.at = "done"]
                           /\ UNCHANGED sig_todo
                      ELSE /\ sig_todo' = Tail(sig_todo)
                           /\ UNCHANGED <<sig_result, sig_pc>>
    /\ UNCHANGED <<sig_tx, sig_args>>
    /\ UNCHANGED <<ledger_vars, proto_vars>>

\* The signatures of the section are exhausted: on to the next section.
NextSection ==
    /\ sig_pc.at = "signatures"
    /\ sig_todo = <<>>
    /\ sig_pc' = [section |-> sig_pc.section + 1, at |-> "section"]
    /\ UNCHANGED <<sig_tx, sig_args, sig_gas_meter, sig_todo,
                   valid_signatures, sig_result, sig_checked>>
    /\ UNCHANGED <<ledger_vars, proto_vars>>

NextSig ==
    \/ VerifySection
    \/ VerifySignatureIndex
    \/ NextSection

SpecSig == InitSig /\ [][NextSig]_vars

\* ------------------------------------------------------------------------
\* Claims about validity-predicate execution
\* ------------------------------------------------------------------------
\* execute_vps has returned to check_vps.
ExecuteVpsReturned == vp_trace.tx_ran /\ vps_pc \in {"finish", "done"}

\* execute_vps has returned Ok.
VpsOk == ExecuteVpsReturned /\ vps_result.kind = "Ok"

\* The verifiers whose VP has been evaluated so far.
Evaluated == DOMAIN vp_trace.evaluated

\* The evaluation of the verifier yielded a hard error: its verdict is an
\* error, or the closure of the fold returned one.
Failed(a) ==
    \/ vp_trace.evaluated[a].accept \notin {"true", "false"}
    \/ vp_trace.evaluated[a].ret # "Ok"

\* The hard error the evaluation of the verifier yielded.
ErrorOf(a) ==
    IF vp_trace.evaluated[a].ret # "Ok" THEN vp_trace.evaluated[a].ret
    ELSE vp_trace.evaluated[a].accept

\* The hard errors the evaluations have yielded so far.
HardErrors == {ErrorOf(a) : a \in {x \in Evaluated : Failed(x)}}

\* C11: whenever execute_vps returns Ok, accepted_vps and rejected_vps are
\* disjoint and together make up the verifier set, an address is rejected
\* iff its VP returned false, and the VPs are satisfied iff none rejected.
C11_VpsPartition ==
    VpsOk =>
        /\ vps_result.accepted_vps \cup vps_result.rejected_vps = verifiers
        /\ vps_result.accepted_vps \cap vps_result.rejected_vps = {}
        /\ Evaluated = verifiers
        /\ \A a \in verifiers :
              /\ a \in vps_result.rejected_vps
                    <=> vp_trace.evaluated[a].accept = "false"
              /\ a \in vps_result.accepted_vps
                    <=> vp_trace.evaluated[a].accept = "true"
        /\ is_accepted(vps_result)
              <=> \A a \in verifiers : vp_trace.evaluated[a].accept = "true"

\* Two chunks were merged into an Ok result with an accepted and a rejected
\* verifier.
C11_Witness ==
    /\ VpsOk
    /\ vps_result.accepted_vps # {}
    /\ vps_result.rejected_vps # {}
    /\ ~is_accepted(vps_result)

\* C12 as stated: a hard error of any evaluated verifier is the kind of
\* error execute_vps returns; without a hard error the result is Ok and
\* every verifier was evaluated.
C12_Original ==
    ExecuteVpsReturned =>
        /\ \A a \in Evaluated :
              Failed(a) =>
                  /\ vps_result.kind = "Err"
                  /\ vps_result.err = ErrorOf(a)
        /\ (HardErrors = {} /\ ~vp_trace.merge_failed) =>
              /\ vps_result.kind = "Ok"
              /\ Evaluated = verifiers

\* C12: once an evaluation has raised a hard error execute_vps returns an
\* error, that of one of the failed evaluations or of a failed merge, and
\* never Ok; an error is returned only if a hard error was raised, so a
\* rejection alone never causes one, and an Ok result means every verifier
\* was evaluated.
C12_FailFast ==
    ExecuteVpsReturned =>
        /\ HardErrors # {} =>
              /\ vps_result.kind = "Err"
              /\ \/ vps_result.err \in HardErrors
                 \/ vp_trace.merge_failed /\ vps_result.err = "GasError"
        /\ vps_result.kind = "Err" =>
              HardErrors # {} \/ vp_trace.merge_failed
        /\ vps_result.kind = "Ok" => Evaluated = verifiers

\* A hard error was returned although another verifier, evaluated as well,
\* merely rejected.
C12_Witness ==
    /\ ExecuteVpsReturned
    /\ vps_result.kind = "Err"
    /\ \E a, b \in Evaluated :
          /\ Failed(a)
          /\ ErrorOf(a) = vps_result.err
          /\ ~Failed(b)
          /\ vp_trace.evaluated[b].accept = "false"

\* C13: merging VpsResults in any operand order and any pairing gives the
\* same accepted set, the same rejected set and the same gas (or fails
\* alike).
C13_MergeCommutesAssociates ==
    \A m, n \in merge_out : m.out = n.out

\* Three different results with gas of their own were merged to an Ok
\* result in every order and pairing.
C13_Witness ==
    /\ \E m \in merge_out : m.pairing = "left" /\ m.out.kind = "Ok"
    /\ \E m \in merge_out : m.pairing = "right"
    /\ merge_args.a # merge_args.b
    /\ merge_args.b # merge_args.c
    /\ merge_args.a # merge_args.c
    /\ merge_args.a.gas_used > 0
    /\ merge_args.c.gas_used > 0
    /\ merge_args.b.rejected_vps # {}

\* The gas the VPs of a set of verifiers consumed.
RECURSIVE SumGas(_)
SumGas(vs) ==
    IF vs = {} THEN 0
    ELSE LET a == CHOOSE x \in vs : TRUE
         IN  vp_trace.evaluated[a].gas + SumGas(vs \ {a})

\* The gas a verifier's VP consumes when run on its own.
SoloRun(a) ==
    run_vp(a, vp_env[a], verifiers, new_from_tx_meter(vp_trace.tx_gas_meter))

RECURSIVE SumSoloGas(_)
SumSoloGas(vs) ==
    IF vs = {} THEN 0
    ELSE LET a == CHOOSE x \in vs : TRUE
         IN  SoloRun(a).gas_meter.current_gas + SumSoloGas(vs \ {a})

C15_VpIsolation ==
    /\ vps_pc = "fold" => tx_gas_meter = vp_trace.tx_gas_meter
    /\ \A a \in Evaluated :
          /\ vp_trace.evaluated[a].gas_meter =
                new_from_tx_meter(vp_trace.tx_gas_meter)
          /\ vp_trace.evaluated[a].accept = SoloRun(a).accept
          /\ vp_trace.evaluated[a].gas = SoloRun(a).gas_meter.current_gas

\* Two VPs of one chunk have run one after the other, both using gas.
C15_Witness ==
    /\ vps_pc = "fold"
    /\ Len(chunks) = 1
    /\ chunks[1].todo = <<>>
    /\ Cardinality({a \in Evaluated : vp_trace.evaluated[a].gas > 0}) >= 2
    /\ vp_trace.tx_gas_meter.transaction_gas = 0

\* C16: no VP is evaluated before execute_tx has returned, and from then on
\* the write log and its changed keys stay what execute_tx left, up to the
\* changed keys of the TxResult.
C16_VpsWriteNothing ==
    /\ ~vp_trace.tx_ran => Evaluated = {} /\ chunks = <<>>
    /\ vp_trace.tx_ran =>
          /\ write_log = vp_trace.write_log
          /\ get_keys(write_log) = vp_trace.changed_keys
          /\ tx_result.res = "Ok" =>
                tx_result.changed_keys = vp_trace.changed_keys

\* check_vps has failed after VPs ran over a tx that wrote something.
C16_Witness ==
    /\ ExecuteVpsReturned
    /\ vps_result.kind = "Err"
    /\ Evaluated # {}
    /\ get_keys(write_log) # {}
    /\ \E a \in Evaluated : vp_trace.evaluated[a].accept = "false"

\* The PoS VP was evaluated and panicked.
PosPanicked == PoS \in Evaluated /\ vp_env[PoS].run = "Panic"

\* C17: a panic of the PoS VP never leaves execute_vps: the VP's verdict
\* becomes the error PosNativeVpRuntime and execute_vps returns an error,
\* this one unless another hard error is returned in its place.
C17_PanicConverted ==
    /\ vps_result.kind # "Panic"
    /\ tx_result.res # "Panic"
    /\ \A i \in 1..Len(chunks) : chunks[i].res.kind # "Panic"
    /\ PosPanicked =>
          vp_trace.evaluated[PoS].accept = "PosNativeVpRuntime"
    /\ (ExecuteVpsReturned /\ PosPanicked) =>
          /\ vps_result.kind = "Err"
          /\ tx_result.res = vps_result.err
          /\ \/ vps_result.err = "PosNativeVpRuntime"
             \/ HardErrors \ {"PosNativeVpRuntime"} # {}
             \/ vp_trace.merge_failed

\* The panic came back from apply_wasm_tx as PosNativeVpRuntime.
C17_Witness ==
    /\ ExecuteVpsReturned
    /\ PosPanicked
    /\ vps_result.err = "PosNativeVpRuntime"
    /\ tx_result.res = "PosNativeVpRuntime"

\* C18: an IbcToken or Erc20 verifier is accepted iff Multitoken is in the
\* verifier set and rejected otherwise, without an error and without gas.
C18_TokenVp ==
    /\ \A a \in Evaluated \cap {IbcToken, Erc20} :
          /\ vp_trace.evaluated[a].accept =
                (IF Multitoken \in verifiers THEN "true" ELSE "false")
          /\ vp_trace.evaluated[a].gas = 0
          /\ vp_trace.evaluated[a].ret = "Ok"
    /\ VpsOk =>
          \A a \in verifiers \cap {IbcToken, Erc20} :
              /\ a \in vps_result.accepted_vps <=> Multitoken \in verifiers
              /\ a \in vps_result.rejected_vps <=> Multitoken \notin verifiers

\* IbcToken was accepted next to a Multitoken VP that itself rejected.
C18_Witness ==
    /\ VpsOk
    /\ IbcToken \in vps_result.accepted_vps
    /\ Multitoken \in vps_result.rejected_vps

\* ------------------------------------------------------------------------
\* Claims about verify_section_signatures
\* ------------------------------------------------------------------------
\* verify_section_signatures has returned.
SigDone == sig_pc.at = "done"

\* The signatures of a section that verify.
ValidCount(section) ==
    Cardinality({ix \in DOMAIN section.signatures : section.signatures[ix]})

\* The section is over the requested hashes.
Covers(section) ==
    \A x \in sig_args.hashes :
        x \in section.targets \/ get_hash(section) = x

\* Every target of the section is a section of the transaction.
TargetsPresent(section) ==
    \A target \in section.targets : get_section(sig_tx, target)

\* The signatures of all signature sections of the transaction.
RECURSIVE TotalSignatures(_)
TotalSignatures(tx) ==
    IF tx = <<>> THEN 0
    ELSE total_signatures(Head(tx)) + TotalSignatures(Tail(tx))

\* The meter can pay for the check of every signature of the transaction.
GasSuffices ==
    sig_gas_meter.initial_gas
        + VERIFY_TX_SIG_GAS_COST * TotalSignatures(sig_tx)
      <= sig_gas_meter.tx_gas_limit

\* What the claim says of one section under threshold k.
QuorumOf(section) ==
    /\ ValidCount(section) = sig_args.threshold - 1 => sig_result # "Ok"
    /\ (/\ ValidCount(section) = sig_args.threshold
        /\ total_signatures(section) <= sig_args.max_signatures
        /\ GasSuffices) => sig_result = "Ok"

\* C19 as stated: a signature section over the requested hashes with k-1
\* valid signatures fails, one with exactly k passes when its signatures
\* are no more than max_signatures and gas suffices.
C19_Original ==
    SigDone =>
        \A i \in 1..Len(sig_tx) : Covers(sig_tx[i]) => QuorumOf(sig_tx[i])

\* C19: for a threshold k of at least 1 and a transaction whose only
\* signature section is over the requested hashes and has all its targets
\* among the sections, k-1 valid signatures fail and exactly k pass, even
\* with invalid ones besides, when the signatures are no more than
\* max_signatures and gas suffices.
C19_Quorum ==
    (/\ SigDone
     /\ Len(sig_tx) = 1
     /\ sig_args.threshold >= 1
     /\ Covers(sig_tx[1])
     /\ TargetsPresent(sig_tx[1])) => QuorumOf(sig_tx[1])

\* A section with an invalid signature and exactly k valid ones has passed.
C19_Witness ==
    /\ SigDone
    /\ sig_result = "Ok"
    /\ Len(sig_tx) = 1
    /\ sig_args.threshold >= 1
    /\ ValidCount(sig_tx[1]) = sig_args.threshold
    /\ \E ix \in DOMAIN sig_tx[1].signatures : ~sig_tx[1].signatures[ix]
    /\ sig_checked = 2

\* C20: every signature check costs VERIFY_TX_SIG_GAS_COST on the meter,
\* and a check the meter cannot pay ends the verification with OutOfGas,
\* the only way OutOfGas comes about.
C20_SigGas ==
    /\ sig_gas_meter.current_gas = VERIFY_TX_SIG_GAS_COST * sig_checked
    /\ (sig_gas_meter.initial_gas + sig_gas_meter.current_gas
          > sig_gas_meter.tx_gas_limit) <=> (sig_result = "OutOfGas")
    /\ sig_result = "OutOfGas" => SigDone

\* The check that could not be paid was of a valid signature that would
\* have met the threshold.
C20_Witness ==
    /\ sig_result = "OutOfGas"
    /\ sig_checked >= 2
    /\ sig_todo # <<>>
    /\ sig_tx[sig_pc.section].signatures[Head(sig_todo)]
    /\ valid_signatures + 1 >= sig_args.threshold
    /\ sig_args.threshold >= 1
\* ------------------------------------------------------------- Commitment
\* A Commitment is written <<"Id", code>> or <<"Hash", hash>>.

\* Largest length of the code bytes that are drawn.
MaxCodeLen == 2

\* Largest number of operations applied to one Commitment.
MaxOps == 2

\* A hash function that tells apart only the first byte of its input.
hash_tx_first_byte(bytes) ==
    <<100, IF Len(bytes) = 0 THEN <<>> ELSE <<bytes[1]>>>>

\* SHA-256 of the bytes, without collisions.
hash_tx(bytes) == <<100, bytes>>

\* Commitment::contract
contract(self) ==
    IF self[1] = "Id" THEN <<"Hash", hash_tx(self[2])>> ELSE self

\* expand that takes any bytes for a hash.
expand_unchecked(self, code) ==
    IF self[1] = "Id" /\ self[2] = code THEN [ok |-> TRUE, self |-> self]
    ELSE IF self[1] = "Hash" THEN [ok |-> TRUE, self |-> <<"Id", code>>]
    ELSE [ok |-> FALSE, self |-> self]

\* Commitment::expand: the commitment afterwards and whether Ok(()) or
\* Err(CommitmentError) is returned.
expand(self, code) ==
    IF self[1] = "Id" /\ self[2] = code THEN [ok |-> TRUE, self |-> self]
    ELSE IF self[1] = "Hash" /\ self[2] = hash_tx(code)
    THEN [ok |-> TRUE, self |-> <<"Id", code>>]
    ELSE [ok |-> FALSE, self |-> self]

\* Commitment::hash
Commitment_hash(self) ==
    IF self[1] = "Id" THEN hash_tx(self[2]) ELSE self[2]
\* ------------------------------------------------------ sections of a Tx
\* A section is written <<"Data", salt, data>>, <<"Code", salt, commitment>>,
\* <<"ExtraData", salt, commitment>>, <<"Signature", targets, signature>>,
\* <<"MaspBuilder", target>> or <<"Header", header>>.  A signature is the
\* pair of the key that made it and the hash it was made over, <<"none",
\* <<>>>> for None; a public key is written like its secret key.

\* Largest number of sections a transaction has before it is signed.
MaxSections == 2

\* Section::get_hash that hashes the code of a Code section when the section
\* holds it and the hash of the code otherwise.
Section_get_hash_of_payload(section) ==
    CASE section[1] \in {"Code", "ExtraData"} ->
            <<IF section[1] = "Code" THEN 2 ELSE 1, section[2], section[3][2]>>
      [] section[1] = "Data" -> <<0, section[2], section[3]>>
      [] section[1] = "Signature" -> <<4, section[2], section[3]>>
      [] section[1] = "MaspBuilder" -> <<7, section[2]>>
      [] section[1] = "Header" -> <<8, section[2]>>

\* Section::get_hash: Borsh's index of the variant, then what the section
\* feeds the hasher with; Code::hash takes the salt and Commitment::hash.
Section_get_hash(section) ==
    CASE section[1] \in {"Code", "ExtraData"} ->
            <<IF section[1] = "Code" THEN 2 ELSE 1, section[2],
              Commitment_hash(section[3])>>
      [] section[1] = "Data" -> <<0, section[2], section[3]>>
      [] section[1] = "Signature" -> <<4, section[2], section[3]>>
      [] section[1] = "MaspBuilder" -> <<7, section[2]>>
      [] section[1] = "Header" -> <<8, section[2]>>

\* Signature::new: the section with the signature by sec_key over
\* Signature::get_hash of the section without a signature, which is the hash
\* of the serialized struct and has no index of a variant in front.
Signature_new(targets, sec_key) ==
    <<"Signature", targets, <<sec_key, <<-1, targets, <<"none", <<>>>>>>>>>>

\* ------------------------------------------------------------------- Tx
\* Tx::header_hash
header_hash(t) == Section_get_hash(<<"Header", t.header>>)

\* Tx::sechashes
sechashes(t) ==
    <<header_hash(t)>>
        \o [i \in 1..Len(t.sections) |-> Section_get_hash(t.sections[i])]

\* Tx::get_section: 0 for the header, the index of the first section with
\* this hash, or -1 for None.
Tx_get_section(t, hash) ==
    LET found == {i \in 1..Len(t.sections) :
                     Section_get_hash(t.sections[i]) = hash}
    IN  IF header_hash(t) = hash THEN 0
        ELSE IF found = {} THEN -1
        ELSE CHOOSE i \in found : \A j \in found : i <= j

\* verify_signature that does not look for the targets.
RECURSIVE verify_signature_targets_unchecked(_, _, _, _)
verify_signature_targets_unchecked(t, public_key, hashes, i) ==
    IF i > Len(t.sections)
    THEN [kind |-> "Err", err |-> "InvalidWrapperSignature", sig |-> 0]
    ELSE LET section == t.sections[i]
         IN  IF /\ section[1] = "Signature"
                /\ \A k \in 1..Len(hashes) :
                      \/ \E n \in 1..Len(section[2]) :
                            section[2][n] = hashes[k]
                      \/ Section_get_hash(section) = hashes[k]
             THEN IF section = Signature_new(section[2], public_key)
                  THEN [kind |-> "Ok", err |-> "none", sig |-> i]
                  ELSE [kind |-> "Err", err |-> "InvalidWrapperSignature",
                        sig |-> 0]
             ELSE verify_signature_targets_unchecked(t, public_key, hashes,
                                                     i + 1)

\* verify_signature that goes on to the next section when the one over the
\* hashes lacks a target or does not verify.
RECURSIVE verify_signature_any_match(_, _, _, _)
verify_signature_any_match(t, public_key, hashes, i) ==
    IF i > Len(t.sections)
    THEN [kind |-> "Err", err |-> "InvalidWrapperSignature", sig |-> 0]
    ELSE LET section == t.sections[i]
         IN  IF /\ section[1] = "Signature"
                /\ \A k \in 1..Len(hashes) :
                      \/ \E n \in 1..Len(section[2]) :
                            section[2][n] = hashes[k]
                      \/ Section_get_hash(section) = hashes[k]
                /\ \A k \in 1..Len(section[2]) :
                      Tx_get_section(t, section[2][k]) >= 0
                /\ section = Signature_new(section[2], public_key)
             THEN [kind |-> "Ok", err |-> "none", sig |-> i]
             ELSE verify_signature_any_match(t, public_key, hashes, i + 1)

\* Tx::verify_signature, from section i on: Ok with the index of the
\* signature section, or the error.  Signature::verify_signature accepts
\* the signature that public_key's secret key makes over the targets, and
\* fails with MissingData on a section without a signature and with
\* SigError on any other; both are returned as InvalidWrapperSignature.
RECURSIVE verify_signature(_, _, _, _)
verify_signature(t, public_key, hashes, i) ==
    IF i > Len(t.sections)
    THEN [kind |-> "Err", err |-> "InvalidWrapperSignature", sig |-> 0]
    ELSE LET section == t.sections[i]
         IN  IF /\ section[1] = "Signature"
                /\ \A k \in 1..Len(hashes) :
                      \/ \E n \in 1..Len(section[2]) :
                            section[2][n] = hashes[k]
                      \/ Section_get_hash(section) = hashes[k]
             THEN IF \E k \in 1..Len(section[2]) :
                        Tx_get_section(t, section[2][k]) = -1
                  THEN [kind |-> "Err",
                        err |-> "InvalidSectionSignature: Target section is missing.",
                        sig |-> 0]
                  ELSE IF section = Signature_new(section[2], public_key)
                  THEN [kind |-> "Ok", err |-> "none", sig |-> i]
                  ELSE [kind |-> "Err", err |-> "InvalidWrapperSignature",
                        sig |-> 0]
             ELSE verify_signature(t, public_key, hashes, i + 1)

\* validate_tx that checks the signature of every type of transaction.
validate_tx_checks_all(t) ==
    LET r == verify_signature(t, t.header.pk, sechashes(t), 1)
    IN  IF r.kind = "Ok" THEN r
        ELSE [kind |-> "Err", err |-> "SigError", sig |-> 0]

\* validate_tx that asks for a signature over the header hash alone.
validate_tx_header_only(t) ==
    IF t.header.tx_type \in {"Wrapper", "Protocol"}
    THEN LET r == verify_signature(t, t.header.pk, <<header_hash(t)>>, 1)
         IN  IF r.kind = "Ok" THEN r
             ELSE [kind |-> "Err", err |-> "SigError", sig |-> 0]
    ELSE [kind |-> "Ok", err |-> "none", sig |-> 0]

\* Tx::validate_tx: Ok with the index of the signature section, 0 for
\* Ok(None), or TxError::SigError.
validate_tx(t) ==
    IF t.header.tx_type \in {"Wrapper", "Protocol"}
    THEN LET r == verify_signature(t, t.header.pk, sechashes(t), 1)
         IN  IF r.kind = "Ok" THEN r
             ELSE [kind |-> "Err", err |-> "SigError", sig |-> 0]
    ELSE [kind |-> "Ok", err |-> "none", sig |-> 0]

\* protocol_filter that also removes the Data sections.
RECURSIVE protocol_filter_removes_data(_, _, _)
protocol_filter_removes_data(t, i, filtered) ==
    IF i = 0 THEN [tx |-> t, filtered |-> filtered]
    ELSE IF t.sections[i][1] \in {"MaspBuilder", "Data"}
    THEN protocol_filter_removes_data(
            [t EXCEPT !.sections =
                SubSeq(@, 1, i - 1) \o SubSeq(@, i + 1, Len(@))],
            i - 1, Append(filtered, t.sections[i]))
    ELSE protocol_filter_removes_data(t, i - 1, filtered)

\* Tx::protocol_filter, the loop from section i down to the first; gives
\* the transaction and the sections removed.
RECURSIVE protocol_filter(_, _, _)
protocol_filter(t, i, filtered) ==
    IF i = 0 THEN [tx |-> t, filtered |-> filtered]
    ELSE IF t.sections[i][1] = "MaspBuilder"
    THEN protocol_filter(
            [t EXCEPT !.sections =
                SubSeq(@, 1, i - 1) \o SubSeq(@, i + 1, Len(@))],
            i - 1, Append(filtered, t.sections[i]))
    ELSE protocol_filter(t, i - 1, filtered)

\* Tx::wallet_filter, the loop from section i down to the first.
RECURSIVE wallet_filter(_, _, _)
wallet_filter(t, i, filtered) ==
    IF i = 0 THEN [tx |-> t, filtered |-> filtered]
    ELSE IF t.sections[i][1] \in {"Code", "ExtraData"}
    THEN wallet_filter(
            [t EXCEPT !.sections[i] = <<@[1], @[2], contract(@[3])>>],
            i - 1, Append(filtered, t.sections[i]))
    ELSE wallet_filter(t, i - 1, filtered)

\* sign_wrapper that signs before it filters.
sign_wrapper_signs_first(t, keypair) ==
    LET signed == [t EXCEPT !.sections =
                      Append(@, Signature_new(sechashes(t), keypair))]
    IN  protocol_filter(signed, Len(signed.sections), <<>>).tx

\* Tx::sign_wrapper: protocol_filter, then add_section of the signature over
\* sechashes().
sign_wrapper(t, keypair) ==
    LET filtered == protocol_filter(t, Len(t.sections), <<>>).tx
    IN  [filtered EXCEPT !.sections =
            Append(@, Signature_new(sechashes(filtered), keypair))]

\* --------------------------------------------------------- wire encoding
\* Borsh writes a u32 length in front of a Vec and a u8 index in front of
\* the payload of an enum variant; a salt, a hash, a key and a length are
\* each written here as one number.  On the wire a hash and a key are just
\* bytes, so the transactions that are encoded hold numbers in their place,
\* and an Option<common::Signature> is <<"None">> or <<"Some", n>>.  A
\* reader returns [ok, val, rest]: the value and the rest of the buffer.

\* Vec<u8> written without its length.
ser_vec_u8_no_length(v) == v

\* BorshSerialize for Vec<u8>
ser_vec_u8(v) == <<Len(v)>> \o v

\* BorshSerialize for Section, with those of Commitment and of
\* Option<common::Signature>.
ser_section(section) ==
    CASE section[1] = "Data" ->
            <<0, section[2]>> \o ser_vec_u8(section[3])
      [] section[1] \in {"Code", "ExtraData"} ->
            <<IF section[1] = "Code" THEN 2 ELSE 1, section[2]>>
                \o (IF section[3][1] = "Hash" THEN <<0, section[3][2]>>
                    ELSE <<1>> \o ser_vec_u8(section[3][2]))
      [] section[1] = "Signature" ->
            <<4>> \o ser_vec_u8(section[2])
                \o (IF section[3][1] = "None" THEN <<0>>
                    ELSE <<1, section[3][2]>>)
      [] section[1] = "MaspBuilder" -> <<7, section[2]>>

\* BorshDeserialize for Section, with those of Vec<u8>, of Commitment and of
\* Option<common::Signature>.
de_section(buf) ==
    LET Fail == [ok |-> FALSE, val |-> <<>>, rest |-> <<>>]
        Got(val, rest) == [ok |-> TRUE, val |-> val, rest |-> rest]
        Drop(b, n) == SubSeq(b, n + 1, Len(b))
        de_vec_u8(b) ==
            IF Len(b) = 0 THEN Fail
            ELSE IF Len(b) - 1 < b[1] THEN Fail
            ELSE Got(SubSeq(b, 2, b[1] + 1), Drop(b, b[1] + 1))
        de_commitment(b) ==
            IF Len(b) < 2 THEN Fail
            ELSE IF b[1] = 0 THEN Got(<<"Hash", b[2]>>, Drop(b, 2))
            ELSE IF b[1] = 1
            THEN LET r == de_vec_u8(Drop(b, 1))
                 IN  IF r.ok THEN Got(<<"Id", r.val>>, r.rest) ELSE Fail
            ELSE Fail
        de_option(b) ==
            IF Len(b) = 0 THEN Fail
            ELSE IF b[1] = 0 THEN Got(<<"None">>, Drop(b, 1))
            ELSE IF b[1] = 1 /\ Len(b) >= 2
            THEN Got(<<"Some", b[2]>>, Drop(b, 2))
            ELSE Fail
    IN  IF Len(buf) < 2 THEN Fail
        ELSE LET body == Drop(buf, 1)
             IN  CASE buf[1] = 0 ->
                        LET r == de_vec_u8(Drop(body, 1))
                        IN  IF r.ok
                            THEN Got(<<"Data", body[1], r.val>>, r.rest)
                            ELSE Fail
                   [] buf[1] \in {1, 2} ->
                        LET r == de_commitment(Drop(body, 1))
                        IN  IF r.ok
                            THEN Got(<<IF buf[1] = 2 THEN "Code"
                                       ELSE "ExtraData", body[1], r.val>>,
                                     r.rest)
                            ELSE Fail
                   [] buf[1] = 4 ->
                        LET r == de_vec_u8(body)
                            o == IF r.ok THEN de_option(r.rest) ELSE Fail
                        IN  IF o.ok
                            THEN Got(<<"Signature", r.val, o.val>>, o.rest)
                            ELSE Fail
                   [] buf[1] = 7 ->
                        Got(<<"MaspBuilder", body[1]>>, Drop(body, 1))
                   [] OTHER -> Fail

\* Tx::to_bytes: try_to_vec writes the header (code hash, data hash, the
\* index of the TxType and its key), the number of sections and the
\* sections; types::Tx::encode puts them in field 1 of the envelope, tag 10
\* and length, and leaves the field out when it is empty.
to_bytes(t) ==
    LET RECURSIVE ser_sections(_)
        ser_sections(sections) ==
            IF Len(sections) = 0 THEN <<>>
            ELSE ser_section(Head(sections)) \o ser_sections(Tail(sections))
        ser_tx_type ==
            CASE t.header.tx_type = "Raw" -> <<0>>
              [] t.header.tx_type = "Wrapper" -> <<1, t.header.pk>>
              [] t.header.tx_type = "Decrypted" -> <<2>>
              [] t.header.tx_type = "Protocol" -> <<3, t.header.pk>>
        data == <<t.header.code_hash, t.header.data_hash>> \o ser_tx_type
                    \o <<Len(t.sections)>> \o ser_sections(t.sections)
    IN  IF Len(data) = 0 THEN <<>> ELSE <<10, Len(data)>> \o data

\* TryFrom<&[u8]> for Tx: types::Tx::decode takes field 1 out of the
\* envelope, try_from_slice reads the header and the sections and has to
\* read every byte.
try_from(tx_bytes_) ==
    LET Fail == [ok |-> FALSE, val |-> <<>>, rest |-> <<>>]
        Got(val, rest) == [ok |-> TRUE, val |-> val, rest |-> rest]
        Drop(b, n) == SubSeq(b, n + 1, Len(b))
        decoded ==
            IF Len(tx_bytes_) = 0 THEN Got(<<>>, <<>>)
            ELSE IF /\ Len(tx_bytes_) >= 2
                    /\ tx_bytes_[1] = 10
                    /\ tx_bytes_[2] = Len(tx_bytes_) - 2
            THEN Got(Drop(tx_bytes_, 2), <<>>)
            ELSE Fail
        RECURSIVE de_sections(_, _)
        de_sections(b, n) ==
            IF n = 0 THEN Got(<<>>, b)
            ELSE LET r == de_section(b)
                     more == IF r.ok THEN de_sections(r.rest, n - 1) ELSE Fail
                 IN  IF more.ok THEN Got(<<r.val>> \o more.val, more.rest)
                     ELSE Fail
        de_header(b) ==
            IF Len(b) < 3 THEN Fail
            ELSE LET with_key == b[3] \in {1, 3}
                     tx_type == CASE b[3] = 0 -> "Raw"
                                  [] b[3] = 1 -> "Wrapper"
                                  [] b[3] = 2 -> "Decrypted"
                                  [] b[3] = 3 -> "Protocol"
                                  [] OTHER -> "unknown"
                 IN  IF tx_type = "unknown" \/ (with_key /\ Len(b) < 4)
                     THEN Fail
                     ELSE Got([tx_type |-> tx_type,
                                pk |-> IF with_key THEN b[4] ELSE 0,
                                code_hash |-> b[1], data_hash |-> b[2]],
                               Drop(b, IF with_key THEN 4 ELSE 3))
        h == de_header(decoded.val)
        n == IF h.ok /\ Len(h.rest) > 0 THEN h.rest[1] ELSE -1
        s == IF n >= 0 THEN de_sections(Drop(h.rest, 1), n) ELSE Fail
    IN  IF ~decoded.ok THEN <<"Err", "TxDecodingError">>
        ELSE IF s.ok /\ s.rest = <<>>
        THEN <<"Ok", [header |-> h.val, sections |-> s.val]>>
        ELSE <<"Err", "TxDeserializingError">>

\* ------------------------------------------- the bridge pool validity predicate
\* (shared/src/ledger/native_vp/ethereum_bridge/bridge_pool_vp.rs)
\* An Option is written <<"None">> or <<"Some", v>>, a SignedAmount
\* <<"Negative", n>> or <<"Positive", n>>.  The balance key of `owner` in
\* `token` is <<"balance", token, owner>>, the key of a transfer in the pool
\* is <<"pending", transfer>> (its hash is written as the transfer) and the
\* key of the signed Merkle root of the pool is <<"signed_root">>.  The
\* native token is "nam" and the Ethereum address of wrapped NAM is "wnam";
\* the token that wraps an asset is written like the asset.  The bridge pool
\* has the address "ethbridge_pool", the Ethereum bridge "ethbridge".

\* BridgePoolVp::account_balance_delta over the storage before and after.
account_balance_delta(pre, post, address) ==
    LET before == pre[<<"balance", "nam", address>>]
        after == post[<<"balance", "nam", address>>]
    IN  IF before = <<"None">> \/ after = <<"None">> THEN <<"None">>
        ELSE IF before[2] > after[2]
        THEN <<"Some", <<"Negative", before[2] - after[2]>>>>
        ELSE <<"Some", <<"Positive", after[2] - before[2]>>>>

\* check_balance_changes: the amount that left `sender` and reached
\* `receiver`, None when the two changes do not balance or the sender's
\* balance did not decrease, an error when a balance cannot be read after
\* the transaction.
check_balance_changes(pre, post, sender, receiver) ==
    IF post[sender] = <<"None">> \/ post[receiver] = <<"None">>
    THEN <<"Err">>
    ELSE LET sender_delta == post[sender][2] - pre[sender][2]
             receiver_delta == post[receiver][2] - pre[receiver][2]
         IN  IF receiver_delta # -sender_delta THEN <<"None">>
             ELSE IF sender_delta >= 0 THEN <<"None">>
             ELSE <<"Some", receiver_delta>>

\* BridgePoolVp::check_erc20s_escrowed
check_erc20s_escrowed(pre, post, keys, transfer) ==
    LET token == transfer.transfer.asset
        owner_key == <<"balance", token, transfer.transfer.sender>>
        escrow_key == <<"balance", token, "ethbridge_pool">>
    IN  IF owner_key \in keys /\ escrow_key \in keys
        THEN LET change ==
                     check_balance_changes(pre, post, owner_key, escrow_key)
             IN  IF change = <<"Err">> THEN "Err(check_balance_changes)"
                 ELSE IF change = <<"Some", transfer.transfer.amount>>
                 THEN "Ok(true)"
                 ELSE "Ok(false)"
        ELSE "Ok(false)"

\* check_nam_escrowed that takes a payer's balance that did not change for
\* a debit of zero.
check_nam_escrowed_zero_debit(pre, post, delta) ==
    LET debited == account_balance_delta(pre, post, delta.payer_account)
        credited == account_balance_delta(pre, post, delta.escrow_account)
    IN  IF /\ debited # <<"None">>
           /\ debited[2][1] = "Negative" \/ debited[2][2] = 0
           /\ credited # <<"None">> /\ credited[2][1] = "Positive"
        THEN IF /\ debited[2][2] = delta.expected_debit
                /\ credited[2][2] = delta.expected_credit
             THEN "Ok(true)" ELSE "Ok(false)"
        ELSE IF debited # <<"None">> /\ debited[2][1] = "Positive"
        THEN "Ok(false)"
        ELSE IF credited # <<"None">> /\ credited[2][1] = "Negative"
        THEN "Ok(false)"
        ELSE "Err(Could not calculate the balance delta)"

\* check_nam_escrowed with the arm of the missing deltas in the first place.
check_nam_escrowed_missing_first(pre, post, delta) ==
    LET debited == account_balance_delta(pre, post, delta.payer_account)
        credited == account_balance_delta(pre, post, delta.escrow_account)
    IN  IF debited = <<"None">> \/ credited = <<"None">>
        THEN "Err(Could not calculate the balance delta)"
        ELSE IF debited[2][1] = "Negative" /\ credited[2][1] = "Positive"
        THEN IF /\ debited[2][2] = delta.expected_debit
                /\ credited[2][2] = delta.expected_credit
             THEN "Ok(true)" ELSE "Ok(false)"
        ELSE "Ok(false)"

\* BridgePoolVp::check_nam_escrowed: the arms of the match, in their order.
check_nam_escrowed(pre, post, delta) ==
    LET debited == account_balance_delta(pre, post, delta.payer_account)
        credited == account_balance_delta(pre, post, delta.escrow_account)
    IN  IF /\ debited # <<"None">> /\ debited[2][1] = "Negative"
           /\ credited # <<"None">> /\ credited[2][1] = "Positive"
        THEN IF /\ debited[2][2] = delta.expected_debit
                /\ credited[2][2] = delta.expected_credit
             THEN "Ok(true)" ELSE "Ok(false)"
        ELSE IF debited # <<"None">> /\ debited[2][1] = "Positive"
        THEN "Ok(false)"
        ELSE IF credited # <<"None">> /\ credited[2][1] = "Negative"
        THEN "Ok(false)"
        ELSE "Err(Could not calculate the balance delta)"

\* BridgePoolVp::escrow_check that expects of one account paying both the
\* gas and the escrowed NAM a debit of the amount only.
escrow_check_single_debit(wnam_address, transfer) ==
    [err |-> "",
     gas_check |->
        [payer_account |-> transfer.gas_fee.payer,
         escrow_account |-> "ethbridge_pool",
         expected_debit |->
            IF /\ transfer.gas_fee.payer = transfer.transfer.sender
               /\ transfer.transfer.asset = wnam_address
            THEN transfer.transfer.amount ELSE transfer.gas_fee.amount,
         expected_credit |-> transfer.gas_fee.amount],
     token_check |->
        [payer_account |-> transfer.transfer.sender,
         escrow_account |-> IF transfer.transfer.asset = wnam_address
                            THEN "ethbridge" ELSE "ethbridge_pool",
         expected_debit |-> transfer.transfer.amount,
         expected_credit |-> transfer.transfer.amount]]

\* BridgePoolVp::escrow_check without the corner case of one account paying
\* both the gas and the escrowed NAM.
escrow_check_separate(wnam_address, transfer) ==
    [err |-> "",
     gas_check |->
        [payer_account |-> transfer.gas_fee.payer,
         escrow_account |-> "ethbridge_pool",
         expected_debit |-> transfer.gas_fee.amount,
         expected_credit |-> transfer.gas_fee.amount],
     token_check |->
        [payer_account |-> transfer.transfer.sender,
         escrow_account |-> IF transfer.transfer.asset = wnam_address
                            THEN "ethbridge" ELSE "ethbridge_pool",
         expected_debit |-> transfer.transfer.amount,
         expected_credit |-> transfer.transfer.amount]]

\* BridgePoolVp::escrow_check: the EscrowCheck with its two EscrowDeltas, or
\* the error in err.
escrow_check(wnam_address, transfer) ==
    LET is_native_asset == transfer.transfer.asset = wnam_address
        same == /\ transfer.gas_fee.payer = transfer.transfer.sender
                /\ is_native_asset
        debit == checked_add(transfer.gas_fee.amount,
                             transfer.transfer.amount)
        overflow == same /\ debit = NoAmount
    IN  [err |-> IF overflow THEN "Err(Addition overflowed)" ELSE "",
         gas_check |->
            [payer_account |-> transfer.gas_fee.payer,
             escrow_account |-> "ethbridge_pool",
             expected_debit |-> IF overflow THEN 0
                                ELSE IF same THEN debit
                                ELSE transfer.gas_fee.amount,
             expected_credit |-> IF overflow THEN 0
                                 ELSE transfer.gas_fee.amount],
         token_check |->
            [payer_account |-> transfer.transfer.sender,
             escrow_account |-> IF is_native_asset THEN "ethbridge"
                                ELSE "ethbridge_pool",
             expected_debit |-> IF overflow THEN 0
                                ELSE IF same THEN debit
                                ELSE transfer.transfer.amount,
             expected_credit |-> IF overflow THEN 0
                                 ELSE transfer.transfer.amount]]

\* ------------------------------------------------- Commitment on its own
\* A Commitment to a Vec<u8> of at most MaxCodeLen bytes over two byte
\* values: the bytes, their hash or a hash of no such bytes.
InitCommitment ==
    /\ LedgerIdle
    /\ SigIdle
    /\ ProtoIdle("commitment")
    /\ LET ByteStrings == UNION {[1..n -> 0..1] : n \in 0..MaxCodeLen}
       IN  commitment \in {<<"Id", b>> : b \in ByteStrings}
                            \cup {<<"Hash", hash_tx(b)>> : b \in ByteStrings}
                            \cup {<<"Hash", DefaultHash>>}
    /\ com_log = <<>>

\* commitment.contract()
Contract ==
    /\ Len(com_log) < MaxOps
    /\ commitment' = contract(commitment)
    /\ com_log' = Append(com_log,
          [op |-> "contract", code |-> <<>>, pre |-> commitment,
           post |-> contract(commitment), ok |-> TRUE])
    /\ UNCHANGED <<ledger_vars, sig_vars, self_tx, tx_pc, tx_log,
                   wire_tx, tx_bytes, wire_out,
                   pool_tx, pre_storage, post_storage,
                   keys_changed, pool_pc, pool_result>>

\* commitment.expand(code)
Expand ==
    /\ Len(com_log) < MaxOps
    /\ \E code \in UNION {[1..n -> 0..1] : n \in 0..MaxCodeLen} :
          LET r == expand(commitment, code)
          IN  /\ commitment' = r.self
              /\ com_log' = Append(com_log,
                    [op |-> "expand", code |-> code, pre |-> commitment,
                     post |-> r.self, ok |-> r.ok])
    /\ UNCHANGED <<ledger_vars, sig_vars, self_tx, tx_pc, tx_log,
                   wire_tx, tx_bytes, wire_out,
                   pool_tx, pre_storage, post_storage,
                   keys_changed, pool_pc, pool_result>>

NextCommitment ==
    \/ Contract
    \/ Expand

SpecCommitment == InitCommitment /\ [][NextCommitment]_vars

\* --------------------------------------- building and verifying one Tx
\* tx_pc is the stage of the builder: build, added, signed, then filtered or
\* tampered, done.
\* An entry of tx_log names the operation, its key and hashes, the Tx
\* before and after, what was returned and the sections filtered out.

\* A transaction of at most MaxSections of the sections the builder adds, in
\* its order, with a header of any type, signed for by k1 when the type
\* carries a public key, and its code hash unset or set to the hash of its
\* first section (set_code_sechash).
InitTx ==
    /\ LedgerIdle
    /\ SigIdle
    /\ ProtoIdle("tx")
    /\ LET BaseSections ==
               <<<<"Code", 0, <<"Id", <<1>>>>>>, <<"Data", 0, <<1>>>>,
                 <<"MaspBuilder", DefaultHash>>,
                 <<"ExtraData", 0, <<"Id", <<0>>>>>>>>
           Pick(I) ==
               [k \in 1..Cardinality(I) |->
                   BaseSections[CHOOSE i \in I :
                                   Cardinality({j \in I : j <= i}) = k]]
       IN  \E I \in {J \in SUBSET (1..Len(BaseSections)) :
                        Cardinality(J) <= MaxSections} :
             \E ty \in {"Raw", "Decrypted", "Wrapper", "Protocol"} :
                \E code_hash \in
                      {DefaultHash}
                          \cup {Section_get_hash(Pick(I)[i]) :
                                   i \in 1..Len(Pick(I)) \cap {1}} :
                   self_tx =
                       [header |->
                           [tx_type |-> ty,
                            pk |-> IF ty \in {"Wrapper", "Protocol"}
                                   THEN "k1" ELSE "none",
                            code_hash |-> code_hash,
                            data_hash |-> DefaultHash],
                        sections |-> Pick(I)]
    /\ tx_pc = "build"
    /\ tx_log = <<>>

\* tx.add_section(Section::Signature(..)) with a signature section over
\* some of the hashes of the transaction, or over the hash of a section that
\* is not in it, signed by a key or not signed.
AddSignature ==
    /\ tx_pc = "build"
    /\ LET candidates ==
               sechashes(self_tx)
                   \o <<Section_get_hash(<<"Data", 1, <<>>>>)>>
           Pick(I) ==
               [k \in 1..Cardinality(I) |->
                   candidates[CHOOSE i \in I :
                                 Cardinality({j \in I : j <= i}) = k]]
       IN  \E I \in SUBSET (1..Len(candidates)) :
             \E section \in {Signature_new(Pick(I), "k1"),
                             <<"Signature", Pick(I), <<"none", <<>>>>>>} :
                /\ self_tx' = [self_tx EXCEPT !.sections = Append(@, section)]
                /\ tx_log' = Append(tx_log,
                      [op |-> "add_section", key |-> "none", hashes |-> <<>>,
                       pre |-> self_tx, post |-> self_tx',
                       ret |-> [kind |-> "Ok", err |-> "none", sig |-> 0],
                       filtered |-> <<>>])
    /\ tx_pc' = "added"
    /\ UNCHANGED <<ledger_vars, sig_vars, commitment, com_log,
                   wire_tx, tx_bytes, wire_out,
                   pool_tx, pre_storage, post_storage,
                   keys_changed, pool_pc, pool_result>>

\* tx.sign_wrapper(keypair)
SignWrapper ==
    /\ tx_pc \in {"build", "added"}
    /\ \E keypair \in {"k1", "k2"} :
          /\ self_tx' = sign_wrapper(self_tx, keypair)
          /\ tx_log' = Append(tx_log,
                [op |-> "sign_wrapper", key |-> keypair, hashes |-> <<>>,
                 pre |-> self_tx, post |-> self_tx',
                 ret |-> [kind |-> "Ok", err |-> "none", sig |-> 0],
                 filtered |-> <<>>])
    /\ tx_pc' = "signed"
    /\ UNCHANGED <<ledger_vars, sig_vars, commitment, com_log,
                   wire_tx, tx_bytes, wire_out,
                   pool_tx, pre_storage, post_storage,
                   keys_changed, pool_pc, pool_result>>

\* tx.protocol_filter()
ProtocolFilter ==
    /\ tx_pc \in {"build", "added", "signed"}
    /\ LET r == protocol_filter(self_tx, Len(self_tx.sections), <<>>)
       IN  /\ self_tx' = r.tx
           /\ tx_log' = Append(tx_log,
                 [op |-> "protocol_filter", key |-> "none", hashes |-> <<>>,
                  pre |-> self_tx, post |-> r.tx,
                  ret |-> [kind |-> "Ok", err |-> "none", sig |-> 0],
                  filtered |-> r.filtered])
    /\ tx_pc' = "filtered"
    /\ UNCHANGED <<ledger_vars, sig_vars, commitment, com_log,
                   wire_tx, tx_bytes, wire_out,
                   pool_tx, pre_storage, post_storage,
                   keys_changed, pool_pc, pool_result>>

\* tx.wallet_filter()
WalletFilter ==
    /\ tx_pc \in {"build", "added", "signed"}
    /\ LET r == wallet_filter(self_tx, Len(self_tx.sections), <<>>)
       IN  /\ self_tx' = r.tx
           /\ tx_log' = Append(tx_log,
                 [op |-> "wallet_filter", key |-> "none", hashes |-> <<>>,
                  pre |-> self_tx, post |-> r.tx,
                  ret |-> [kind |-> "Ok", err |-> "none", sig |-> 0],
                  filtered |-> r.filtered])
    /\ tx_pc' = "filtered"
    /\ UNCHANGED <<ledger_vars, sig_vars, commitment, com_log,
                   wire_tx, tx_bytes, wire_out,
                   pool_tx, pre_storage, post_storage,
                   keys_changed, pool_pc, pool_result>>

\* A change of the signed transaction by someone without the key k1: the
\* header and the sections are public fields.  The type of the header is
\* changed (update_header), with the key it carries, or its code hash
\* (set_code_sechash); a section is added (add_section): a new one, a copy
\* of the first or a signature by k2 over all the hashes; a section is
\* removed, replaced by a new one or exchanged with the next.
Tamper ==
    /\ tx_pc = "signed"
    /\ LET n == Len(self_tx.sections)
           new == <<"Data", 1, <<>>>>
           headers ==
               {[self_tx.header EXCEPT !.tx_type = h[1], !.pk = h[2]] :
                   h \in {<<"Raw", "none">>, <<"Wrapper", "k2">>,
                          <<"Protocol", "k1">>}}
                 \cup {[self_tx.header EXCEPT
                           !.code_hash = Section_get_hash(new)]}
           added == {new, self_tx.sections[1],
                     Signature_new(sechashes(self_tx), "k2")}
           changes ==
               {<<"header", [self_tx EXCEPT !.header = h]>> :
                   h \in headers \ {self_tx.header}}
                 \cup {<<"add", [self_tx EXCEPT !.sections = Append(@, x)]>> :
                          x \in added}
                 \cup {<<"remove",
                          [self_tx EXCEPT !.sections =
                              SubSeq(@, 1, i - 1) \o SubSeq(@, i + 1, n)]>> :
                          i \in 1..n}
                 \cup {<<"replace", [self_tx EXCEPT !.sections[i] = new]>> :
                          i \in 1..n}
                 \cup {<<"reorder",
                          [self_tx EXCEPT
                              !.sections[i] = self_tx.sections[i + 1],
                              !.sections[i + 1] = self_tx.sections[i]]>> :
                          i \in 1..(n - 1)}
       IN  \E change \in changes :
              /\ self_tx' = change[2]
              /\ tx_log' = Append(tx_log,
                    [op |-> "tamper", key |-> change[1], hashes |-> <<>>,
                     pre |-> self_tx, post |-> change[2],
                     ret |-> [kind |-> "Ok", err |-> "none", sig |-> 0],
                     filtered |-> <<>>])
    /\ tx_pc' = "tampered"
    /\ UNCHANGED <<ledger_vars, sig_vars, commitment, com_log,
                   wire_tx, tx_bytes, wire_out,
                   pool_tx, pre_storage, post_storage,
                   keys_changed, pool_pc, pool_result>>

\* tx.verify_signature(public_key, hashes), asked about all the hashes of
\* the transaction or about the hash of its header.
VerifySignature ==
    /\ tx_pc \in {"build", "added", "signed", "filtered"}
    /\ \E public_key \in {"k1", "k2"} :
          \E hashes \in {sechashes(self_tx), <<header_hash(self_tx)>>} :
             tx_log' = Append(tx_log,
                [op |-> "verify_signature", key |-> public_key,
                 hashes |-> hashes, pre |-> self_tx, post |-> self_tx,
                 ret |-> verify_signature(self_tx, public_key, hashes, 1),
                 filtered |-> <<>>])
    /\ tx_pc' = "done"
    /\ UNCHANGED <<self_tx, ledger_vars, sig_vars, commitment, com_log,
                            wire_tx, tx_bytes, wire_out,
                            pool_tx, pre_storage, post_storage,
                            keys_changed, pool_pc, pool_result>>

\* tx.validate_tx()
ValidateTx ==
    /\ tx_pc \in {"build", "added", "signed", "filtered", "tampered"}
    /\ tx_log' = Append(tx_log,
          [op |-> "validate_tx", key |-> "none", hashes |-> <<>>,
           pre |-> self_tx, post |-> self_tx, ret |-> validate_tx(self_tx),
           filtered |-> <<>>])
    /\ tx_pc' = "done"
    /\ UNCHANGED <<self_tx, ledger_vars, sig_vars, commitment, com_log,
                            wire_tx, tx_bytes, wire_out,
                            pool_tx, pre_storage, post_storage,
                            keys_changed, pool_pc, pool_result>>

NextTx ==
    \/ AddSignature
    \/ SignWrapper
    \/ ProtocolFilter
    \/ WalletFilter
    \/ Tamper
    \/ VerifySignature
    \/ ValidateTx

SpecTx == InitTx /\ [][NextTx]_vars

\* ------------------------------------------ a Tx to bytes and back again
\* A transaction of at most MaxSections sections, of every variant, with
\* an empty and a non-empty payload, under a header of every type.
InitWire ==
    /\ LedgerIdle
    /\ SigIdle
    /\ ProtoIdle("wire")
    /\ LET WireSections ==
               {<<"Data", 0, <<>>>>, <<"Data", 1, <<0, 1>>>>,
                <<"Code", 0, <<"Id", <<1>>>>>>, <<"Code", 0, <<"Hash", 1>>>>,
                <<"ExtraData", 1, <<"Id", <<>>>>>>,
                <<"Signature", <<>>, <<"None">>>>,
                <<"Signature", <<0, 1>>, <<"Some", 1>>>>,
                <<"MaspBuilder", 1>>}
       IN  \E ty \in {"Raw", "Decrypted", "Wrapper", "Protocol"},
              ch \in 0..1 :
             \E sections \in
                   UNION {[1..n -> WireSections] : n \in 0..MaxSections} :
                wire_tx =
                    [header |->
                        [tx_type |-> ty,
                         pk |-> IF ty \in {"Wrapper", "Protocol"} THEN 1
                                ELSE 0,
                         code_hash |-> ch, data_hash |-> 0],
                     sections |-> sections]
    /\ tx_bytes = <<>>
    /\ wire_out = <<"none">>

\* tx.to_bytes()
ToBytes ==
    /\ tx_bytes = <<>>
    /\ wire_out = <<"none">>
    /\ tx_bytes' = to_bytes(wire_tx)
    /\ UNCHANGED <<wire_tx, wire_out, ledger_vars, sig_vars, self_tx, tx_pc, tx_log,
                                      commitment, com_log,
                                      pool_tx, pre_storage, post_storage,
                                      keys_changed, pool_pc, pool_result>>

\* Tx::try_from(&tx_bytes[..])
TryFrom ==
    /\ tx_bytes # <<>>
    /\ wire_out = <<"none">>
    /\ wire_out' = try_from(tx_bytes)
    /\ UNCHANGED <<wire_tx, tx_bytes, ledger_vars, sig_vars, self_tx, tx_pc, tx_log,
                                      commitment, com_log,
                                      pool_tx, pre_storage, post_storage,
                                      keys_changed, pool_pc, pool_result>>

NextWire ==
    \/ ToBytes
    \/ TryFrom

SpecWire == InitWire /\ [][NextWire]_vars

\* ------------------------------------------------------------------- C26
\* C26: decoding the bytes that t.to_bytes() produced with Tx::try_from
\* yields a transaction equal to t: the same header and the same sections
\* in the same order.
C26_WireRoundTrip ==
    wire_out # <<"none">> =>
        /\ wire_out[1] = "Ok"
        /\ wire_out[2].header = wire_tx.header
        /\ wire_out[2].sections = wire_tx.sections

\* A transaction of two sections whose encodings differ in length, the
\* first with bytes that read like a section, came back.
C26_Witness ==
    /\ wire_out # <<"none">>
    /\ Len(wire_tx.sections) = 2
    /\ wire_tx.sections[1] = <<"Data", 1, <<0, 1>>>>
    /\ wire_tx.sections[2][1] = "Signature"
    /\ wire_tx.header.tx_type = "Wrapper"

\* ------------------------------------------- BridgePoolVp::validate_tx
\* The predicate reads storage key by key and returns at the first check
\* that fails.  pre_storage and post_storage hold the keys read so far: a
\* balance enters them when the predicate reads it, so a key that was not
\* read stands for every value it can have.

\* The transaction data is absent, undecodable or a PendingTransfer sent by
\* bertha whose gas is paid by bertha or daewon, with amounts of type Amount.
\* The pool holds the transfer before or not, and afterwards nothing, the
\* transfer or one that differs in its recipient; the transaction wrote the
\* transfer's key, perhaps another key of the pool, the NAM balances of the
\* accounts involved and any of the two balances of a wrapped ERC20.
InitPool ==
    /\ LedgerIdle
    /\ SigIdle
    /\ ProtoIdle("pool")
    /\ pool_pc = "start"
    /\ pool_result = "none"
    /\ \/ /\ pool_tx \in {<<"None">>, <<"Undecodable">>}
          /\ pre_storage = <<>>
          /\ post_storage = <<>>
          /\ keys_changed \in {{}, {<<"signed_root">>}}
       \/ \E transfer \in
                 [transfer : [asset : {"wnam", "erc20"}, sender : {"bertha"},
                              recipient : {0}, amount : 0..MaxAmount],
                  gas_fee : [amount : 0..MaxAmount,
                             payer : {"bertha", "daewon"}]] :
             LET other == [transfer EXCEPT !.transfer.recipient = 1]
             IN  \E before \in {<<"None">>, <<"Some", transfer>>},
                    after \in {<<"None">>, <<"Some", transfer>>,
                               <<"Some", other>>},
                    others \in {{}, {<<"signed_root">>},
                                {<<"pending", other>>}},
                    erc20s \in SUBSET
                        (IF transfer.transfer.asset = "wnam" THEN {}
                         ELSE {<<"balance", transfer.transfer.asset, owner>> :
                                  owner \in {transfer.transfer.sender,
                                             "ethbridge_pool"}}) :
                    /\ pool_tx = <<"Transfer", transfer>>
                    /\ pre_storage = (<<"pending", transfer>> :> before)
                    /\ post_storage = (<<"pending", transfer>> :> after)
                    /\ keys_changed =
                           {<<"pending", transfer>>} \cup others \cup erc20s
                               \cup {<<"balance", "nam", owner>> :
                                        owner \in {transfer.gas_fee.payer,
                                                   transfer.transfer.sender,
                                                   "ethbridge_pool",
                                                   "ethbridge"}}

\* The storage after reading the balances at `keys`: a balance read before
\* keeps its value, a key the transaction did not write has the same value
\* before and after, and a wrapped ERC20 balance exists before the
\* transaction.
Reads(keys) ==
    LET new == keys \ DOMAIN pre_storage
        PreBalances == {<<"None">>, <<"Some", 0>>, <<"Some", MaxAmount>>}
        PostBalances == {<<"None">>} \cup {<<"Some", n>> : n \in 0..MaxAmount}
    IN  {<<p[1] @@ pre_storage, p[2] @@ post_storage>> :
            p \in {q \in [new -> PreBalances] \X [new -> PostBalances] :
                      \A key \in new :
                          /\ key \notin keys_changed => q[1][key] = q[2][key]
                          /\ key[2] # "nam" => q[1][key] # <<"None">>}}

\* validate_tx up to the comparison of the entry with the transfer, without
\* the test that the transfer is not yet in the pool.
CheckPool_no_pre_check ==
    /\ pool_pc = "start"
    /\ LET pending_key == <<"pending", pool_tx[2]>>
           r == IF pool_tx = <<"None">>
                THEN "Err(No transaction data found)"
                ELSE IF pool_tx = <<"Undecodable">> THEN "Err(decode)"
                ELSE IF \E key \in keys_changed :
                            /\ key[1] \in {"pending", "signed_root"}
                            /\ key # pending_key
                THEN "Ok(false)"
                ELSE IF post_storage[pending_key] = <<"None">>
                THEN "Err(the transfer wasn't added to the pool)"
                ELSE IF post_storage[pending_key] # <<"Some", pool_tx[2]>>
                THEN "Ok(false)"
                ELSE ""
       IN  IF r = ""
           THEN pool_pc' = "gas" /\ UNCHANGED pool_result
           ELSE pool_pc' = "done" /\ pool_result' = r
    /\ UNCHANGED <<pool_tx, pre_storage, post_storage, keys_changed,
                   ledger_vars, sig_vars, self_tx, tx_pc, tx_log,
                   commitment, com_log,
                   wire_tx, tx_bytes, wire_out>>

\* validate_tx up to the comparison of the entry with the transfer, without
\* the test of the other keys of the pool.
CheckPool_no_key_check ==
    /\ pool_pc = "start"
    /\ LET pending_key == <<"pending", pool_tx[2]>>
           r == IF pool_tx = <<"None">>
                THEN "Err(No transaction data found)"
                ELSE IF pool_tx = <<"Undecodable">> THEN "Err(decode)"
                ELSE IF pre_storage[pending_key] # <<"None">>
                THEN "Ok(false)"
                ELSE IF post_storage[pending_key] = <<"None">>
                THEN "Err(the transfer wasn't added to the pool)"
                ELSE IF post_storage[pending_key] # <<"Some", pool_tx[2]>>
                THEN "Ok(false)"
                ELSE ""
       IN  IF r = ""
           THEN pool_pc' = "gas" /\ UNCHANGED pool_result
           ELSE pool_pc' = "done" /\ pool_result' = r
    /\ UNCHANGED <<pool_tx, pre_storage, post_storage, keys_changed,
                   ledger_vars, sig_vars, self_tx, tx_pc, tx_log,
                   commitment, com_log,
                   wire_tx, tx_bytes, wire_out>>

\* validate_tx up to the comparison of the entry with the transfer, with
\* false for an entry that is missing.
CheckPool_missing_is_false ==
    /\ pool_pc = "start"
    /\ LET pending_key == <<"pending", pool_tx[2]>>
           r == IF pool_tx = <<"None">>
                THEN "Err(No transaction data found)"
                ELSE IF pool_tx = <<"Undecodable">> THEN "Err(decode)"
                ELSE IF pre_storage[pending_key] # <<"None">>
                THEN "Ok(false)"
                ELSE IF \E key \in keys_changed :
                            /\ key[1] \in {"pending", "signed_root"}
                            /\ key # pending_key
                THEN "Ok(false)"
                ELSE IF post_storage[pending_key] = <<"None">>
                THEN "Ok(false)"
                ELSE IF post_storage[pending_key] # <<"Some", pool_tx[2]>>
                THEN "Ok(false)"
                ELSE ""
       IN  IF r = ""
           THEN pool_pc' = "gas" /\ UNCHANGED pool_result
           ELSE pool_pc' = "done" /\ pool_result' = r
    /\ UNCHANGED <<pool_tx, pre_storage, post_storage, keys_changed,
                   ledger_vars, sig_vars, self_tx, tx_pc, tx_log,
                   commitment, com_log,
                   wire_tx, tx_bytes, wire_out>>

\* validate_tx up to the comparison of the entry with the transfer; a key is
\* of the bridge pool when it is the key of a transfer or of the signed root.
CheckPool ==
    /\ pool_pc = "start"
    /\ LET pending_key == <<"pending", pool_tx[2]>>
           r == IF pool_tx = <<"None">>
                THEN "Err(No transaction data found)"
                ELSE IF pool_tx = <<"Undecodable">> THEN "Err(decode)"
                ELSE IF pre_storage[pending_key] # <<"None">>
                THEN "Ok(false)"
                ELSE IF \E key \in keys_changed :
                            /\ key[1] \in {"pending", "signed_root"}
                            /\ key # pending_key
                THEN "Ok(false)"
                ELSE IF post_storage[pending_key] = <<"None">>
                THEN "Err(the transfer wasn't added to the pool)"
                ELSE IF post_storage[pending_key] # <<"Some", pool_tx[2]>>
                THEN "Ok(false)"
                ELSE ""
       IN  IF r = ""
           THEN pool_pc' = "gas" /\ UNCHANGED pool_result
           ELSE pool_pc' = "done" /\ pool_result' = r
    /\ UNCHANGED <<pool_tx, pre_storage, post_storage, keys_changed,
                   ledger_vars, sig_vars, self_tx, tx_pc, tx_log,
                   commitment, com_log,
                   wire_tx, tx_bytes, wire_out>>

\* validate_tx from escrow_check to the check of the gas fee.
CheckGas ==
    /\ pool_pc = "gas"
    /\ LET transfer == pool_tx[2]
           escrow_checks == escrow_check("wnam", transfer)
           gas_check == escrow_checks.gas_check
       IN  IF escrow_checks.err # ""
           THEN /\ pool_pc' = "done"
                /\ pool_result' = escrow_checks.err
                /\ UNCHANGED <<pre_storage, post_storage>>
           ELSE \E rd \in Reads(
                    {<<"balance", "nam", gas_check.payer_account>>,
                     <<"balance", "nam", gas_check.escrow_account>>}) :
                    /\ pre_storage' = rd[1]
                    /\ post_storage' = rd[2]
                    /\ LET ok == check_nam_escrowed(rd[1], rd[2], gas_check)
                       IN  IF ok = "Ok(true)"
                           THEN pool_pc' = "token" /\ UNCHANGED pool_result
                           ELSE pool_pc' = "done" /\ pool_result' = ok
    /\ UNCHANGED <<pool_tx, keys_changed, ledger_vars, sig_vars, self_tx, tx_pc, tx_log,
                                          commitment, com_log,
                                          wire_tx, tx_bytes, wire_out>>

\* validate_tx: the check of the escrowed assets.
CheckToken ==
    /\ pool_pc = "token"
    /\ LET transfer == pool_tx[2]
           token_check == escrow_check("wnam", transfer).token_check
           owner_key == <<"balance", transfer.transfer.asset,
                          transfer.transfer.sender>>
           escrow_key == <<"balance", transfer.transfer.asset,
                           "ethbridge_pool">>
       IN  IF transfer.transfer.asset = "wnam"
           THEN \E rd \in Reads(
                    {<<"balance", "nam", token_check.payer_account>>,
                     <<"balance", "nam", token_check.escrow_account>>}) :
                    /\ pre_storage' = rd[1]
                    /\ post_storage' = rd[2]
                    /\ pool_result' =
                           check_nam_escrowed(rd[1], rd[2], token_check)
           ELSE \E rd \in Reads(IF owner_key \in keys_changed
                                   /\ escrow_key \in keys_changed
                                THEN {owner_key, escrow_key} ELSE {}) :
                    /\ pre_storage' = rd[1]
                    /\ post_storage' = rd[2]
                    /\ pool_result' =
                           check_erc20s_escrowed(rd[1], rd[2], keys_changed,
                                                 transfer)
    /\ pool_pc' = "done"
    /\ UNCHANGED <<pool_tx, keys_changed, ledger_vars, sig_vars, self_tx, tx_pc, tx_log,
                                          commitment, com_log,
                                          wire_tx, tx_bytes, wire_out>>

NextPool ==
    \/ CheckPool
    \/ CheckGas
    \/ CheckToken

SpecPool == InitPool /\ [][NextPool]_vars
\* ------------------------------------------------------------------- C24
ExpandCalls == {i \in 1..Len(com_log) : com_log[i].op = "expand"}

\* C24: Commitment::expand(bytes) succeeds only on Id holding exactly
\* these bytes, which it leaves as it is, or on Hash equal to the hash of
\* the bytes, which becomes Id(bytes); in every other case it returns
\* CommitmentError and the commitment is unchanged.
C24_Expand ==
    \A i \in ExpandCalls :
        LET e == com_log[i]
            held == e.pre[1] = "Id" /\ e.pre[2] = e.code
            hashed == e.pre[1] = "Hash" /\ e.pre[2] = hash_tx(e.code)
        IN  /\ e.ok <=> (held \/ hashed)
            /\ held => e.post = e.pre
            /\ hashed => e.post = <<"Id", e.code>>
            /\ ~e.ok => e.post = e.pre

\* expand has failed on a hash of other bytes and on other held bytes, and
\* has succeeded on a hash.
C24_Witness ==
    /\ Len(com_log) = 2
    /\ com_log[1].op = "expand" /\ ~com_log[1].ok
    /\ com_log[1].pre[1] = "Hash" /\ com_log[1].pre[2] # DefaultHash
    /\ com_log[2].op = "expand" /\ com_log[2].ok
    /\ com_log[2].post # com_log[2].pre

\* ------------------------------------------------------------------- C25
\* C25: contract() is idempotent and never changes Commitment::hash();
\* contract() followed by expand(b) on Id(b) restores exactly Id(b), and
\* after contract() an expand with other bytes fails and substitutes
\* nothing.
C25_RoundTrip ==
    \A i \in 1..Len(com_log) :
        LET e == com_log[i]
        IN  e.op = "contract" =>
              /\ Commitment_hash(e.post) = Commitment_hash(e.pre)
              /\ contract(e.post) = e.post
              /\ \A j \in 1..Len(com_log) :
                    (j = i + 1 /\ com_log[j].op = "contract")
                        => com_log[j].post = e.post
              /\ \A j \in 1..Len(com_log) :
                    (j = i + 1 /\ com_log[j].op = "expand"
                        /\ e.pre[1] = "Id")
                        => IF com_log[j].code = e.pre[2]
                           THEN com_log[j].ok /\ com_log[j].post = e.pre
                           ELSE ~com_log[j].ok
                                   /\ com_log[j].post = e.post

\* Id(b) has been contracted and expanded with other bytes that begin
\* like b.
C25_Witness ==
    /\ Len(com_log) = 2
    /\ com_log[1].op = "contract" /\ com_log[1].pre[1] = "Id"
    /\ com_log[2].op = "expand"
    /\ com_log[2].code # com_log[1].pre[2]
    /\ Len(com_log[2].code) > 0 /\ Len(com_log[1].pre[2]) > 0
    /\ com_log[2].code[1] = com_log[1].pre[2][1]
    /\ ~com_log[2].ok


\* ------------------------------------------------------------------- C21
\* What an operation in the log returned: Ok with the index of a signature
\* section, or an error.
Ok(sig) == [kind |-> "Ok", err |-> "none", sig |-> sig]

TxErr(err) == [kind |-> "Err", err |-> err, sig |-> 0]

\* The calls of an operation in the log of the transaction.
Calls(op) == {i \in 1..Len(tx_log) : tx_log[i].op = op}

IsSignature(t, i) == t.sections[i][1] = "Signature"

\* Section i of t is a Signature section and every one of the hashes is
\* among its targets or is its own hash.
Matches(t, i, hashes) ==
    /\ IsSignature(t, i)
    /\ \A k \in 1..Len(hashes) :
          \/ \E n \in 1..Len(t.sections[i][2]) : t.sections[i][2][n] = hashes[k]
          \/ hashes[k] = Section_get_hash(t.sections[i])

\* Every target of section i is the hash of the header or of a section.
TargetsResolve(t, i) ==
    \A n \in 1..Len(t.sections[i][2]) :
        \/ t.sections[i][2][n] = header_hash(t)
        \/ \E j \in 1..Len(t.sections) :
              Section_get_hash(t.sections[j]) = t.sections[i][2][n]

\* The signature of section i was made by this key over its targets.
SignedBy(t, i, key) == t.sections[i] = Signature_new(t.sections[i][2], key)

\* The first section that matches.
FirstMatch(t, hashes) ==
    LET M == {i \in 1..Len(t.sections) : Matches(t, i, hashes)}
    IN  IF M = {} THEN 0 ELSE CHOOSE i \in M : \A j \in M : i <= j

\* C21 as stated: a matching section with a target that does not resolve
\* makes verify_signature fail with MissingData.
C21_Original ==
    \A c \in Calls("verify_signature") :
        LET e == tx_log[c]
            m == FirstMatch(e.pre, e.hashes)
        IN  (m # 0 /\ ~TargetsResolve(e.pre, m)) => e.ret.err = "MissingData"

\* C21: verify_signature(pk, hashes) takes a Signature section only if
\* every hash is among its targets or is its own hash; when a target of
\* that section does not resolve to the header or a section it fails with
\* InvalidSectionSignature ("Target section is missing.") whatever the
\* signature is; only then is the signature checked against pk, and Ok
\* names a matching section with all targets present and a valid signature.
C21_VerifySignature ==
    \A c \in Calls("verify_signature") :
        LET e == tx_log[c]
            m == FirstMatch(e.pre, e.hashes)
        IN  /\ e.ret.kind = "Ok" =>
                 /\ e.ret.sig \in 1..Len(e.pre.sections)
                 /\ Matches(e.pre, e.ret.sig, e.hashes)
                 /\ TargetsResolve(e.pre, e.ret.sig)
                 /\ SignedBy(e.pre, e.ret.sig, e.key)
            /\ m = 0 => e.ret = TxErr("InvalidWrapperSignature")
            /\ (m # 0 /\ ~TargetsResolve(e.pre, m)) =>
                 e.ret = TxErr("InvalidSectionSignature: Target section is missing.")
            /\ (m # 0 /\ TargetsResolve(e.pre, m)) =>
                 e.ret = IF SignedBy(e.pre, m, e.key) THEN Ok(m)
                         ELSE TxErr("InvalidWrapperSignature")

\* verify_signature met a matching section signed by the key it was asked
\* about, with a target that is not in the transaction.
C21_Witness ==
    \E c \in Calls("verify_signature") :
        LET e == tx_log[c]
            m == FirstMatch(e.pre, e.hashes)
        IN  /\ m # 0
            /\ ~TargetsResolve(e.pre, m)
            /\ SignedBy(e.pre, m, e.key)
            /\ e.ret.kind = "Err"

\* ------------------------------------------------------------------- C22
NotMaspBuilder(section) == section[1] # "MaspBuilder"

Front(seq) == SubSeq(seq, 1, Len(seq) - 1)

\* C22: sign_wrapper(key) removes the MaspBuilder sections and appends one
\* Signature section whose targets are sechashes() of the transaction at
\* that moment; on a Wrapper transaction whose public key belongs to key,
\* validate_tx then succeeds and returns that section, which does not list
\* its own hash among its targets.
C22_SignWrapper ==
    \A c \in Calls("sign_wrapper") :
        LET e == tx_log[c]
            n == Len(e.post.sections)
            last == e.post.sections[n]
            before == [e.pre EXCEPT !.sections = SelectSeq(@, NotMaspBuilder)]
        IN  /\ n = Len(before.sections) + 1
            /\ Front(e.post.sections) = before.sections
            /\ e.post.header = e.pre.header
            /\ last = Signature_new(sechashes(before), e.key)
            /\ \A k \in 1..Len(last[2]) : last[2][k] # Section_get_hash(last)
            /\ (e.post.header.tx_type = "Wrapper" /\ e.post.header.pk = e.key) =>
                  /\ validate_tx(e.post) = Ok(n)
                  /\ \A d \in Calls("validate_tx") :
                        tx_log[d].pre = e.post => tx_log[d].ret = Ok(n)

\* A Wrapper transaction with a MaspBuilder section and an older signature
\* section was signed with its key and then validated.
C22_Witness ==
    \E c \in Calls("sign_wrapper") :
        LET e == tx_log[c]
        IN  /\ e.post.header.tx_type = "Wrapper"
            /\ e.post.header.pk = e.key
            /\ \E i \in 1..Len(e.pre.sections) : ~NotMaspBuilder(e.pre.sections[i])
            /\ \E i \in 1..Len(e.pre.sections) : IsSignature(e.pre, i)
            /\ c < Len(tx_log)
            /\ tx_log[c + 1].op = "validate_tx"
            /\ tx_log[c + 1].ret.kind = "Ok"

\* ------------------------------------------------------------------- C23
\* Section i is a signature by the key over hashes that cover the full
\* sechashes() of t.
CoversAll(t, i, key) ==
    /\ Matches(t, i, sechashes(t))
    /\ SignedBy(t, i, key)

\* C23: validate_tx on a Raw or Decrypted transaction checks no signature
\* and returns Ok(None) whatever the sections; on a Wrapper or Protocol
\* transaction it returns Ok, with the signature, only if a Signature
\* section by the public key of the header covers the full sechashes(),
\* and an error otherwise.
C23_ValidateTx ==
    \A c \in Calls("validate_tx") :
        LET e == tx_log[c]
            t == e.pre
        IN  IF t.header.tx_type \in {"Raw", "Decrypted"}
            THEN e.ret = Ok(0)
            ELSE /\ e.ret.kind \in {"Ok", "Err"}
                 /\ e.ret.kind = "Ok" =>
                       /\ e.ret.sig \in 1..Len(t.sections)
                       /\ CoversAll(t, e.ret.sig, t.header.pk)
                 /\ (~\E i \in 1..Len(t.sections) : CoversAll(t, i, t.header.pk))
                       => e.ret.kind = "Err"

\* validate_tx returned Ok(None) for a Raw transaction that holds a
\* signature section.
C23_Witness ==
    \E c \in Calls("validate_tx") :
        LET e == tx_log[c]
        IN  /\ e.pre.header.tx_type = "Raw"
            /\ \E i \in 1..Len(e.pre.sections) : IsSignature(e.pre, i)
            /\ e.ret = Ok(0)

\* ------------------------------------------------------------------- C27
Reverse(seq) == [i \in 1..Len(seq) |-> seq[Len(seq) + 1 - i]]

IsMaspBuilder(section) == section[1] = "MaspBuilder"

\* protocol_filter removes exactly the MaspBuilder sections and returns
\* them, and changes nothing else.
RemovesMaspBuilders(e) ==
    /\ e.post.header = e.pre.header
    /\ e.post.sections = SelectSeq(e.pre.sections, NotMaspBuilder)
    /\ e.filtered = Reverse(SelectSeq(e.pre.sections, IsMaspBuilder))

\* C27 as stated: in addition, a section addressed by code_hash or
\* data_hash of the header is never removed.
C27_Original ==
    \A c \in Calls("protocol_filter") :
        LET e == tx_log[c]
        IN  /\ RemovesMaspBuilders(e)
            /\ \A hash \in {e.pre.header.code_hash, e.pre.header.data_hash} :
                  Tx_get_section(e.pre, hash) >= 0
                      => Tx_get_section(e.post, hash) >= 0

\* C27: protocol_filter removes exactly the MaspBuilder sections and
\* returns them; the header, every other section and their order are
\* unchanged, so a section addressed by code_hash or data_hash is removed
\* only if it is a MaspBuilder section.
C27_ProtocolFilter ==
    \A c \in Calls("protocol_filter") :
        LET e == tx_log[c]
        IN  /\ RemovesMaspBuilders(e)
            /\ \A hash \in {e.pre.header.code_hash, e.pre.header.data_hash} :
                  LET i == Tx_get_section(e.pre, hash)
                  IN  (i >= 0 /\ (i = 0 \/ NotMaspBuilder(e.pre.sections[i])))
                         => /\ Tx_get_section(e.post, hash) >= 0
                            /\ i # 0 =>
                                 e.post.sections[Tx_get_section(e.post, hash)]
                                    = e.pre.sections[i]

\* protocol_filter removed a MaspBuilder section of a transaction whose
\* code hash addresses another section, and left sections.
C27_Witness ==
    \E c \in Calls("protocol_filter") :
        LET e == tx_log[c]
            i == Tx_get_section(e.pre, e.pre.header.code_hash)
        IN  /\ i > 0
            /\ NotMaspBuilder(e.pre.sections[i])
            /\ Len(e.filtered) > 0
            /\ Len(e.post.sections) > 0

\* ------------------------------------------------------------------- C28
IsCode(section) == section[1] \in {"Code", "ExtraData"}

\* C28: wallet_filter replaces the payload of every Code and ExtraData
\* section by its hash in place and returns the original sections; no
\* section is removed or reordered and no hash changes: header_hash() and
\* sechashes() are the same before and after, code_hash and data_hash
\* resolve as before and signatures verify as before.
C28_WalletFilter ==
    \A c \in Calls("wallet_filter") :
        LET e == tx_log[c]
        IN  /\ e.post.header = e.pre.header
            /\ Len(e.post.sections) = Len(e.pre.sections)
            /\ \A i \in 1..Len(e.pre.sections) :
                  LET s == e.pre.sections[i]
                  IN  e.post.sections[i] =
                         IF IsCode(s)
                         THEN <<s[1], s[2], <<"Hash", Commitment_hash(s[3])>>>>
                         ELSE s
            /\ e.filtered = Reverse(SelectSeq(e.pre.sections, IsCode))
            /\ header_hash(e.post) = header_hash(e.pre)
            /\ sechashes(e.post) = sechashes(e.pre)
            /\ \A hash \in {e.pre.header.code_hash, e.pre.header.data_hash} :
                  Tx_get_section(e.post, hash) = Tx_get_section(e.pre, hash)
            /\ validate_tx(e.post) = validate_tx(e.pre)
            /\ \A key \in {"k1", "k2"} :
                 \A hashes \in {sechashes(e.pre), <<header_hash(e.pre)>>} :
                  verify_signature(e.post, key, hashes, 1)
                      = verify_signature(e.pre, key, hashes, 1)
            /\ \A d \in Calls("validate_tx") :
                  tx_log[d].pre = e.post => tx_log[d].ret = validate_tx(e.pre)

\* A signed Wrapper transaction whose code the header addresses went
\* through wallet_filter, which contracted the code, and was validated.
C28_Witness ==
    \E c \in Calls("wallet_filter") :
        LET e == tx_log[c]
        IN  /\ e.post # e.pre
            /\ Tx_get_section(e.pre, e.pre.header.code_hash) > 0
            /\ c > 1
            /\ tx_log[c - 1].op = "sign_wrapper"
            /\ c < Len(tx_log)
            /\ tx_log[c + 1].op = "validate_tx"
            /\ tx_log[c + 1].ret.kind = "Ok"


\* ------------------------------------------- properties of the bridge pool VP
\* The transfer validate_tx decoded.
PoolTransfer == pool_tx[2]

\* The key of the transfer in the pool.
PendingKey == <<"pending", PoolTransfer>>

\* validate_tx has returned.
PoolDone == pool_pc = "done"

\* validate_tx went on to the escrow checks.
EscrowReached ==
    /\ pool_tx[1] = "Transfer"
    /\ pool_pc \in {"token", "done"}
    /\ pre_storage[PendingKey] = <<"None">>
    /\ post_storage[PendingKey] = <<"Some", PoolTransfer>>
    /\ \A key \in keys_changed :
           key[1] \in {"pending", "signed_root"} => key = PendingKey
    /\ pool_result # "Err(Addition overflowed)"

IsNativeAsset == PoolTransfer.transfer.asset = "wnam"

\* The four balances the escrow checks are about.
PayerKey == <<"balance", "nam", PoolTransfer.gas_fee.payer>>

PoolGasKey == <<"balance", "nam", "ethbridge_pool">>

SenderKey ==
    <<"balance",
      IF IsNativeAsset THEN "nam" ELSE PoolTransfer.transfer.asset,
      PoolTransfer.transfer.sender>>

EscrowKey ==
    IF IsNativeAsset THEN <<"balance", "nam", "ethbridge">>
    ELSE <<"balance", PoolTransfer.transfer.asset, "ethbridge_pool">>

\* The balance at key was read, before and after the transaction.
WasRead(key) == key \in DOMAIN pre_storage

\* The balance at key was read and exists before and after.
Known(key) ==
    /\ WasRead(key)
    /\ pre_storage[key] # <<"None">>
    /\ post_storage[key] # <<"None">>

\* The change of the balance at key.
Change(key) == post_storage[key][2] - pre_storage[key][2]

\* One account pays the gas and the escrowed NAM.
SameAccount ==
    /\ PoolTransfer.gas_fee.payer = PoolTransfer.transfer.sender
    /\ IsNativeAsset

\* What the code expects of the two debits.
PayerDebit ==
    IF SameAccount
    THEN PoolTransfer.gas_fee.amount + PoolTransfer.transfer.amount
    ELSE PoolTransfer.gas_fee.amount

SenderDebit ==
    IF SameAccount
    THEN PoolTransfer.gas_fee.amount + PoolTransfer.transfer.amount
    ELSE PoolTransfer.transfer.amount

\* The four balances changed as the code expects.
Escrowed ==
    /\ Known(PayerKey) /\ Change(PayerKey) = -PayerDebit /\ PayerDebit > 0
    /\ Known(PoolGasKey)
    /\ Change(PoolGasKey) = PoolTransfer.gas_fee.amount
    /\ Known(SenderKey) /\ Change(SenderKey) = -SenderDebit
    /\ SenderDebit > 0
    /\ Known(EscrowKey)
    /\ Change(EscrowKey) = PoolTransfer.transfer.amount

\* A balance that was read changed otherwise than the code expects.
Mismatch ==
    \/ WasRead(PayerKey) /\ Change(PayerKey) # -PayerDebit
    \/ WasRead(PoolGasKey)
       /\ Change(PoolGasKey) # PoolTransfer.gas_fee.amount
    \/ WasRead(SenderKey) /\ Change(SenderKey) # -SenderDebit
    \/ WasRead(EscrowKey)
       /\ Change(EscrowKey) # PoolTransfer.transfer.amount

C30_AlreadyInPool ==
    (pool_tx[1] = "Transfer"
        /\ pre_storage[PendingKey] # <<"None">>) =>
        /\ pool_result # "Ok(true)"
        /\ PoolDone => pool_result = "Ok(false)"

\* The transfer was in the pool before, the entry after equals it, no other
\* key of the pool changed, and validate_tx returned false.
C30_Witness ==
    /\ PoolDone
    /\ pool_tx[1] = "Transfer"
    /\ pre_storage[PendingKey] = <<"Some", PoolTransfer>>
    /\ post_storage[PendingKey] = <<"Some", PoolTransfer>>
    /\ \A key \in keys_changed :
           key[1] \in {"pending", "signed_root"} => key = PendingKey
    /\ pool_result = "Ok(false)"

\* ------------------------------------------------------------------- C31
\* The transaction wrote a key of the pool that is not the key of its
\* transfer.
OtherPoolKey ==
    \E key \in keys_changed :
        /\ key[1] \in {"pending", "signed_root"}
        /\ pool_tx[1] = "Transfer" => key # PendingKey

\* C31: a transaction that changed a key of the bridge pool other than the
\* key of its own transfer is never accepted: validate_tx returns false
\* when the data decodes to a transfer, whatever the entry written and the
\* balances are, and an error when there is no data or it does not decode.
C31_OtherKeyRejected ==
    (OtherPoolKey /\ pool_pc # "idle") =>
        /\ pool_result # "Ok(true)"
        /\ PoolDone =>
              pool_result =
                  CASE pool_tx[1] = "Transfer" -> "Ok(false)"
                    [] pool_tx[1] = "None" -> "Err(No transaction data found)"
                    [] OTHER -> "Err(decode)"

\* The transfer was not in the pool, the entry written equals it, the signed
\* root changed as well, and validate_tx returned false.
C31_Witness ==
    /\ PoolDone
    /\ pool_tx[1] = "Transfer"
    /\ pre_storage[PendingKey] = <<"None">>
    /\ post_storage[PendingKey] = <<"Some", PoolTransfer>>
    /\ <<"signed_root">> \in keys_changed
    /\ pool_result = "Ok(false)"

\* ------------------------------------------------------------------- C32
\* C32 as stated: with no entry at the key of the transfer after the
\* transaction validate_tx returns an error, and with an entry that differs
\* from the transfer it returns false.
C32_Original ==
    (PoolDone /\ pool_tx[1] = "Transfer") =>
        /\ post_storage[PendingKey] = <<"None">> =>
              pool_result = "Err(the transfer wasn't added to the pool)"
        /\ post_storage[PendingKey] \notin
               {<<"None">>, <<"Some", PoolTransfer>>} =>
              pool_result = "Ok(false)"

\* C32: when the transfer was not in the pool before and no other key of
\* the pool changed, validate_tx returns an error if no entry is at the key
\* of the transfer afterwards and false if the entry there differs from the
\* transfer; when the transfer was in the pool before or another key of the
\* pool changed, it returns false whether the entry is missing or not.
C32_MissingOrWrongEntry ==
    (PoolDone /\ pool_tx[1] = "Transfer") =>
        IF pre_storage[PendingKey] = <<"None">> /\ ~OtherPoolKey
        THEN /\ post_storage[PendingKey] = <<"None">> =>
                   pool_result = "Err(the transfer wasn't added to the pool)"
             /\ post_storage[PendingKey] \notin
                    {<<"None">>, <<"Some", PoolTransfer>>} =>
                   pool_result = "Ok(false)"
        ELSE pool_result = "Ok(false)"

\* No entry was written for a transfer that was not in the pool, no other
\* key of the pool changed, and validate_tx returned the error.
C32_Witness ==
    /\ PoolDone
    /\ pool_tx[1] = "Transfer"
    /\ pre_storage[PendingKey] = <<"None">>
    /\ post_storage[PendingKey] = <<"None">>
    /\ ~OtherPoolKey
    /\ pool_result = "Err(the transfer wasn't added to the pool)"

\* ------------------------------------------------------------------- C33
\* C33: when one account pays the gas and sends wrapped NAM, validate_tx
\* accepts only if the NAM of that account decreased by the gas fee plus the
\* amount, the NAM of the bridge pool increased by the gas fee and the NAM
\* of the Ethereum bridge increased by the amount; a decrease by the gas fee
\* alone or by the amount alone, both being positive, is never accepted.
C33_CombinedDebit ==
    (pool_tx[1] = "Transfer" /\ pool_pc # "idle" /\ SameAccount) =>
        /\ pool_result = "Ok(true)" =>
              /\ Known(PayerKey) /\ Known(PoolGasKey) /\ Known(EscrowKey)
              /\ Change(PayerKey) =
                     -(PoolTransfer.gas_fee.amount
                          + PoolTransfer.transfer.amount)
              /\ Change(PoolGasKey) = PoolTransfer.gas_fee.amount
              /\ Change(EscrowKey) = PoolTransfer.transfer.amount
              /\ EscrowKey = <<"balance", "nam", "ethbridge">>
        /\ ( /\ Known(PayerKey)
             /\ PoolTransfer.gas_fee.amount > 0
             /\ PoolTransfer.transfer.amount > 0
             /\ -Change(PayerKey) \in {PoolTransfer.gas_fee.amount,
                                       PoolTransfer.transfer.amount} )
           => pool_result # "Ok(true)"

\* One account paid gas and amount, its NAM decreased by the amount alone
\* while both escrows received what they were due, and validate_tx returned
\* false.
C33_Witness ==
    /\ PoolDone
    /\ pool_tx[1] = "Transfer"
    /\ SameAccount
    /\ pre_storage[PendingKey] = <<"None">>
    /\ post_storage[PendingKey] = <<"Some", PoolTransfer>>
    /\ PoolTransfer.gas_fee.amount > 0
    /\ PoolTransfer.transfer.amount > 0
    /\ Known(PayerKey)
    /\ Change(PayerKey) = -PoolTransfer.transfer.amount
    /\ Known(PoolGasKey)
    /\ Change(PoolGasKey) = PoolTransfer.gas_fee.amount
    /\ pool_result = "Ok(false)"

\* ------------------------------------------------------------------- C34
\* The two NAM balances one call of check_nam_escrowed reads: those of the
\* gas check, and those of the check of escrowed NAM.
NamChecks ==
    {<<PayerKey, PoolGasKey>>}
        \cup (IF IsNativeAsset THEN {<<SenderKey, EscrowKey>>} ELSE {})

\* A balance of a check that was read is missing before or after.
MissingIn(check) ==
    /\ WasRead(check[1])
    /\ WasRead(check[2])
    /\ ~(Known(check[1]) /\ Known(check[2]))

\* C34 as stated: when a balance of the payer or of the escrow account is
\* missing in an escrow check, validate_tx returns an error.
C34_Original ==
    (PoolDone /\ pool_tx[1] = "Transfer") =>
        \A check \in NamChecks :
            MissingIn(check) =>
                pool_result = "Err(Could not calculate the balance delta)"

\* C34: when a balance of the payer or of the escrow account is missing in
\* a check of escrowed NAM, validate_tx never accepts; it returns false when
\* the payer's balance is there and did not decrease or the escrow's balance
\* is there and decreased, and an error in every other case, so when both
\* are missing.
C34_MissingBalance ==
    (PoolDone /\ pool_tx[1] = "Transfer") =>
        \A check \in NamChecks :
            MissingIn(check) =>
                pool_result =
                    IF \/ Known(check[1]) /\ Change(check[1]) >= 0
                       \/ Known(check[2]) /\ Change(check[2]) < 0
                    THEN "Ok(false)"
                    ELSE "Err(Could not calculate the balance delta)"

\* The escrow's balance was missing while the payer's had not decreased,
\* and validate_tx returned false.
C34_Witness ==
    /\ PoolDone
    /\ pool_tx[1] = "Transfer"
    /\ WasRead(PayerKey)
    /\ Known(PayerKey)
    /\ Change(PayerKey) >= 0
    /\ WasRead(PoolGasKey)
    /\ ~Known(PoolGasKey)
    /\ pool_result = "Ok(false)"

SomeGoodSignature(t, hashes, key) ==
    \E i \in 1..Len(t.sections) :
        /\ Matches(t, i, hashes)
        /\ TargetsResolve(t, i)
        /\ SignedBy(t, i, key)

HashSet(t) == {sechashes(t)[k] : k \in 1..Len(sechashes(t))}

\* The calls that changed a Wrapper transaction right after sign_wrapper
\* signed it, when validate_tx accepted what was signed.
AfterSigning(op) ==
    {c \in Calls(op) :
        /\ c > 1
        /\ tx_log[c - 1].op = "sign_wrapper"
        /\ tx_log[c].pre.header.tx_type = "Wrapper"
        /\ validate_tx(tx_log[c].pre).kind = "Ok"}

\* The header hash or the set of section hashes is not what it was.
HashesChanged(e) ==
    \/ header_hash(e.post) # header_hash(e.pre)
    \/ HashSet(e.post) # HashSet(e.pre)

\* validate_tx, as computed and as returned by every call on what the
\* change left, gave this kind of result.
Validates(e, kind) ==
    /\ validate_tx(e.post).kind = kind
    /\ \A d \in Calls("validate_tx") :
          tx_log[d].pre = e.post => tx_log[d].ret.kind = kind

\* C40 as stated: after sign_wrapper and a successful validate_tx, every
\* change of the header hash or of the set of section hashes makes
\* validate_tx fail, and a change that keeps the hashes does not.
C40_Original ==
    /\ \A c \in AfterSigning("tamper") :
          LET e == tx_log[c]
          IN  Validates(e, IF HashesChanged(e) THEN "Err" ELSE "Ok")
    /\ \A c \in AfterSigning("wallet_filter") :
          Validates(tx_log[c], "Ok")

\* The signature sign_wrapper appended, the last section, is the only
\* section of t that is signed with the key of the header.
OneWrapperSignature(t) ==
    \A i \in 1..(Len(t.sections) - 1) :
        IsSignature(t, i) => t.sections[i][3][1] # t.header.pk

\* C40: after sign_wrapper and a successful validate_tx, a change of the
\* header hash or of the set of section hashes (a header field, a section
\* appended, removed or replaced by one with another hash) makes
\* validate_tx fail as long as the header still is of type Wrapper or
\* Protocol and no other section was signed with the key of the header
\* before; a header changed to a type without a signature to check is
\* accepted with Ok(None) although its hash changed.  Reordering the
\* sections, adding a copy of a section and wallet_filter keep the hashes
\* and validate_tx still succeeds.
C40_TamperEvident ==
    /\ \A c \in AfterSigning("tamper") :
          LET e == tx_log[c]
              checked == e.post.header.tx_type \in {"Wrapper", "Protocol"}
          IN  /\ (checked /\ HashesChanged(e) /\ OneWrapperSignature(e.pre))
                    => Validates(e, "Err")
              /\ (checked /\ ~HashesChanged(e)) => Validates(e, "Ok")
              /\ ~checked =>
                    /\ HashesChanged(e)
                    /\ Validates(e, "Ok")
                    /\ validate_tx(e.post).sig = 0
              /\ e.key = "reorder" => ~HashesChanged(e)
    /\ \A c \in AfterSigning("wallet_filter") :
          /\ ~HashesChanged(tx_log[c])
          /\ Validates(tx_log[c], "Ok")

\* After sign_wrapper a section was appended to, one was removed from, one
\* was replaced in and a header field was changed in an accepted Wrapper
\* transaction, each time changing the hashes, and validate_tx rejected
\* what was left.
TamperRejected(kind) ==
    \E c \in AfterSigning("tamper") :
        /\ tx_log[c].key = kind
        /\ HashesChanged(tx_log[c])
        /\ OneWrapperSignature(tx_log[c].pre)
        /\ c < Len(tx_log)
        /\ tx_log[c + 1].op = "validate_tx"
        /\ tx_log[c + 1].ret.kind = "Err"

\* An accepted Wrapper transaction was changed after sign_wrapper in a way
\* that changed its hashes, and validate_tx rejected it.
C40_Witness ==
    \E kind \in {"header", "add", "remove", "replace"} : TamperRejected(kind)

\* ------------------------------------------------------------------- C36
\* C36 as stated: a signature section that is not over the requested
\* hashes is passed over, so it never makes the verification fail.
C36_Original ==
    SigDone => sig_result # "missing target hash."

\* C36: verify_section_signatures fails with "missing target hash." at the
\* first signature section that is not over the requested hashes, unless
\* the sections before it have ended the verification: every section it
\* got past is over the hashes, and a transaction whose first signature
\* section is not over them fails whatever follows.
C36_UncoveredFails ==
    SigDone =>
        /\ \A i \in 1..Len(sig_tx) : i < sig_pc.section => Covers(sig_tx[i])
        /\ (sig_pc.section <= Len(sig_tx)
               /\ ~Covers(sig_tx[sig_pc.section]))
              => sig_result = "missing target hash."
        /\ sig_result = "missing target hash."
              => /\ sig_pc.section <= Len(sig_tx)
                 /\ ~Covers(sig_tx[sig_pc.section])
        /\ (Len(sig_tx) >= 1 /\ ~Covers(sig_tx[1]))
              => sig_result = "missing target hash."

\* A section over other hashes came first, and the section after it, with
\* enough valid signatures over the requested hashes, was never looked at.
C36_Witness ==
    /\ SigDone
    /\ Len(sig_tx) = 2
    /\ ~Covers(sig_tx[1])
    /\ Covers(sig_tx[2])
    /\ TargetsPresent(sig_tx[2])
    /\ sig_args.threshold >= 1
    /\ ValidCount(sig_tx[2]) >= sig_args.threshold
    /\ sig_result = "missing target hash."
    /\ sig_checked = 0

\* ------------------------------------------------------------------- C38
\* The signers with a valid signature in some section of the transaction.
ValidSigners ==
    {ix \in SignerIndex :
        \E i \in 1..Len(sig_tx) :
            ix \in DOMAIN sig_tx[i].signatures /\ sig_tx[i].signatures[ix]}

\* The valid signatures of the sections up to section n, each section
\* counted on its own.
RECURSIVE ValidUpTo(_)
ValidUpTo(n) ==
    IF n = 0 THEN 0 ELSE ValidCount(sig_tx[n]) + ValidUpTo(n - 1)

\* C38 as stated: verify_section_signatures returns Ok only if at least
\* threshold distinct signers have a valid signature, and never for a
\* transaction without a signature section.
C38_Original ==
    sig_result = "Ok" =>
        /\ Cardinality(ValidSigners) >= sig_args.threshold
        /\ Len(sig_tx) >= 1

\* C38: verify_section_signatures returns Ok only if the valid signatures
\* it counted, section after section, reach the threshold; a signer is
\* counted once in a section and once more in every further section that
\* holds a valid signature of theirs, so only a transaction with one
\* signature section needs threshold distinct signers; a transaction
\* without any signature section never passes.
C38_CountsPerSection ==
    /\ sig_result = "Ok" =>
          /\ Len(sig_tx) >= 1
          /\ sig_pc.section \in 1..Len(sig_tx)
          /\ valid_signatures >= sig_args.threshold
          /\ valid_signatures <= ValidUpTo(sig_pc.section)
          /\ Len(sig_tx) = 1 =>
                Cardinality(ValidSigners) >= sig_args.threshold
    /\ (SigDone /\ Len(sig_tx) = 0) => sig_result = "invalid signatures."

\* Two sections each held a valid signature of the same signer and no
\* other valid one, and the threshold of two was met.
C38_Witness ==
    /\ SigDone
    /\ sig_result = "Ok"
    /\ Len(sig_tx) = 2
    /\ sig_args.threshold = 2
    /\ Cardinality(ValidSigners) = 1
    /\ valid_signatures = 2
\* ------------------------------------------------------------------- C39
\* What transfer_fee hands to token_transfer: the fee when the payer can
\* afford it, all of the payer's balance otherwise.
FeeAmount ==
    IF Fees # NoAmount /\ PayerBalance >= Fees THEN Fees ELSE PayerBalance

\* transfer_fee gets to token_transfer: always, but for an insufficient
\* balance excused by a proof of work.
FeeTransferTried ==
    ~(Fees # NoAmount /\ PayerBalance < Fees /\ has_valid_pow)

\* token_transfer fails: the credit would overflow the proposer's balance
\* (the debit never exceeds what the payer has).
FeeTransferFails == FeeTransferTried /\ ~CanCredit(FeeAmount)
                       /\ block_proposer # FeePayer

====
